---- MODULE Spec2Model ----
(***************************************************************************)
(* A state-machine model of the physical execution subsystem of ddb:      *)
(* the buffered writer, the external sort buffer, the sort, materialize,  *)
(* hash equi-join and aggregation operators, and the planner's Sarg and   *)
(* GROUP BY handling.  Every object of the program is a record-valued     *)
(* variable; every specification below drives one operator.               *)
(***************************************************************************)
EXTENDS Integers, Sequences, FiniteSets, TLC

VARIABLES
    tmp,    \* the tmp space: heap-file name -> rows of the file (StorageManager.heap_file under tmp_tx)
    esb,    \* the ExtSortBuffer object (executor/util.py), its construction parameters and the locals of its iter_and_clear()
    hj,     \* the HashEqJoinPop object, its inputs and the locals of its execute()
    ag,     \* the AggrPop object, its input and the locals of its execute()
    pl,     \* the planner's SELECT block, the plan built for it and the rows the plan yields
    mat,    \* the MaterializePop object, its input table, its consumer and the running execute() call
    mj,     \* the MergeEqJoinPop object, its two sorted inputs and the locals of its execute()
    sg,     \* a single-table WHERE condition, the Sarg chosen for it and the rows its index plan yields
    ncols,  \* number of columns of the rows the operator under study is fed
    tm,     \* the LMDBTransactionManager: its transactions and the two LMDB environments they work on
    sess,   \* the Session object: its options and its parent transactions
    gens,  \* the generators of a plan whose consumer may close the root before its end
    bw,    \* a BufferedWriter object (executor/util.py) that is written to directly
    stg,   \* a base table and its secondary indices in the storage manager (storage/lmdb.py)
    obs     \* what the consumer of the operator under study has added and received

vars == <<tmp, esb, hj, mj, ag, pl, mat, sg, tm, sess, gens, bw, stg, ncols, obs>>

\* An object no statement has constructed.
Idle == [pc |-> "idle"]

----------------------------------------------------------------------------
(* Sizes.                                                                  *)

\* globals.BLOCK_SIZE
BLOCK_SIZE == 4028

\* Number of columns of the wide rows fed to the sort and the hash join: two
\* such rows fit the memory of a three-block sort, one does not fit a block.
NumColumns == 745

\* A row is a Python tuple and sys.getsizeof of a tuple is 40 + 8 * (number of
\* items) whatever the items are, so all rows of one operator input weigh the
\* same.  The model keeps only the columns the operators look at.
getsizeof(row) == 40 + 8 * ncols

----------------------------------------------------------------------------
(* The tmp space: heap files by name.                                      *)

NoFiles == << >>

\* heap_file(tmp_tx, name, create_if_not_exists=True) followed by truncate()
TmpFileCreate(files, name) ==
    (name :> << >>) @@ files

\* HeapFile.batch_append: rows get increasing row ids, a scan returns them in that order
batch_append(files, name, rows) ==
    [files EXCEPT ![name] = @ \o rows]

\* StorageManager.delete_heap_file
delete_heap_file(files, name) ==
    \* (written out as an explicit function)
    [n \in (DOMAIN files) \ {name} |-> files[n]] @@ << >>

\* HeapFile.iter_scan
iter_scan(files, name) == files[name]

----------------------------------------------------------------------------
(* BufferedWriter (executor/util.py).                                      *)

BufferedWriter(name, num_memory_blocks) ==
    [file |-> name, max_bytes |-> num_memory_blocks * BLOCK_SIZE,
     buffer |-> << >>, num_bytes |-> 0, num_blocks_flushed |-> 0]

\* BufferedWriter.flush: the state of <<writer, files>> after the call
BufferedWriter_flush(w, files) ==
    [w |-> [w EXCEPT !.buffer = << >>, !.num_bytes = 0,
                     !.num_blocks_flushed = @ + 1],
     files |-> batch_append(files, w.file, w.buffer)]

\* BufferedWriter.write
BufferedWriter_write(w, files, row) ==
    LET w1 == [w EXCEPT !.buffer = Append(@, row),
                        !.num_bytes = @ + getsizeof(row)]
    IN  IF w1.num_bytes + getsizeof(row) > w1.max_bytes
        THEN BufferedWriter_flush(w1, files)
        ELSE [w |-> w1, files |-> files]

RECURSIVE BufferedWriter_write_all(_, _, _)
BufferedWriter_write_all(w, files, rows) ==
    IF rows = << >> THEN [w |-> w, files |-> files]
    ELSE LET s == BufferedWriter_write(w, files, Head(rows))
         IN  BufferedWriter_write_all(s.w, s.files, Tail(rows))

----------------------------------------------------------------------------
(* Rows and comparators of the sort.                                       *)

\* The rows a sort is fed: <<sort column, other column>>.
SortRows == {<<1, 1>>, <<1, 2>>, <<2, 1>>}

\* The comparators handed to ExtSortBuffer, as the list of the columns of the
\* sort expressions (ascending): <<1>> compares the first column only
\* (MergeSortPop.compare over one sort expression, AggrPop's compare_rows over the
\* aggregate's input), <<1, 2>> compares all columns (a sort on every column).
Comparators == {<<1>>, <<1, 2>>}

Cmp3(x, y) == IF x < y THEN -1 ELSE IF x > y THEN 1 ELSE 0

\* MergeSortPop._compile_comparators: -1 / 0 / 1, lexicographic over the sort expressions
RECURSIVE compare(_, _, _)
compare(cmp, this, that) ==
    IF cmp = << >> THEN 0
    ELSE IF this[Head(cmp)] # that[Head(cmp)] THEN Cmp3(this[Head(cmp)], that[Head(cmp)])
    ELSE compare(Tail(cmp), this, that)

\* Where bisect_right puts row in the sorted sequence s: after every element that
\* does not compare greater (sortedcontainers SortedKeyList.add, and the place a
\* stable list.sort leaves a later element).
InsertionPoint(cmp, s, row) ==
    Cardinality({i \in 1..Len(s) : compare(cmp, s[i], row) <= 0})

InsertSorted(cmp, s, row) ==
    LET p == InsertionPoint(cmp, s, row)
    IN  SubSeq(s, 1, p) \o <<row>> \o SubSeq(s, p + 1, Len(s))

\* list.sort(key=cmp_to_key(compare)): a stable sort
RECURSIVE SortStable(_, _, _)
SortStable(cmp, done, rest) ==
    IF rest = << >> THEN done
    ELSE SortStable(cmp, InsertSorted(cmp, done, Head(rest)), Tail(rest))

Range(s) == {s[i] : i \in 1..Len(s)}

----------------------------------------------------------------------------
(* ExtSortBuffer (executor/util.py).                                       *)

\* ExtSortBuffer.__init__ (the M <= 2 and M_final <= 1 errors are raised before an object exists)
ExtSortBuffer(cmp, num_memory_blocks, num_memory_blocks_final, deduplicate) ==
    [compare |-> cmp,
     num_memory_blocks |-> num_memory_blocks,
     num_memory_blocks_final |-> num_memory_blocks_final,
     max_bytes |-> num_memory_blocks * BLOCK_SIZE,
     deduplicate |-> deduplicate,
     buffer |-> << >>, num_bytes |-> 0, num_blocks_flushed |-> 0, runs |-> << >>]

\* MergeSortPop._tmp_file_create: the name of the run file of a level
SortRunName(level, run) == <<"sort", level, run>>

\* The buffer as _flush writes it: a SortedSet is kept sorted, a list is sorted here.
FlushedRows(b) ==
    IF b.deduplicate THEN b.buffer ELSE SortStable(b.compare, << >>, b.buffer)

\* A _flush that forgets to sort the list before writing the run.
ExtSortBuffer_flush_unsorted(b, files) ==
    LET name == SortRunName(0, Len(b.runs))
    IN  [b |-> [b EXCEPT !.runs = Append(@, name), !.buffer = << >>, !.num_bytes = 0,
                         !.num_blocks_flushed = @ + b.num_memory_blocks],
         files |-> batch_append(TmpFileCreate(files, name), name, b.buffer)]

\* ExtSortBuffer._flush
ExtSortBuffer_flush(b, files) ==
    LET name == SortRunName(0, Len(b.runs))
    IN  [b |-> [b EXCEPT !.runs = Append(@, name), !.buffer = << >>, !.num_bytes = 0,
                         !.num_blocks_flushed = @ + b.num_memory_blocks],
         files |-> batch_append(TmpFileCreate(files, name), name, FlushedRows(b))]

\* ExtSortBuffer.add
ExtSortBuffer_add(b, files, row) ==
    IF b.deduplicate /\ row \in Range(b.buffer)
    THEN [b |-> b, files |-> files]
    ELSE LET s == IF b.num_bytes + getsizeof(row) > b.max_bytes
                  THEN ExtSortBuffer_flush(b, files)
                  ELSE [b |-> b, files |-> files]
         IN  [b |-> [s.b EXCEPT
                        !.buffer = IF b.deduplicate
                                   THEN InsertSorted(b.compare, @, row)
                                   ELSE Append(@, row),
                        !.num_bytes = @ + getsizeof(row)],
              files |-> s.files]

\* The queue's order in _iter_merge: by compare, then by run number.
HeadBefore(cmp, rs, i, j) ==
    LET c == compare(cmp, Head(rs[i]), Head(rs[j]))
    IN  c < 0 \/ (c = 0 /\ i <= j)

\* ExtSortBuffer._iter_merge over the contents of the runs; last is the row
\* dequeued before (<< >> when there is none).
RECURSIVE ExtSortBuffer_iter_merge(_, _, _)
ExtSortBuffer_iter_merge(b, rs, last) ==
    LET live == {i \in 1..Len(rs) : rs[i] # << >>}
    IN  IF live = {} THEN << >>
        ELSE LET i == CHOOSE x \in live : \A y \in live : HeadBefore(b.compare, rs, x, y)
                 row == Head(rs[i])
                 rest == ExtSortBuffer_iter_merge(b, [rs EXCEPT ![i] = Tail(@)], <<row>>)
             IN  IF ~b.deduplicate \/ last # <<row>> THEN <<row>> \o rest ELSE rest

RECURSIVE DeleteRuns(_, _)
DeleteRuns(files, names) ==
    IF names = << >> THEN files
    ELSE DeleteRuns(delete_heap_file(files, Head(names)), Tail(names))

MinOf(x, y) == IF x < y THEN x ELSE y

\* One merge pass of iter_and_clear: merge up to M-1 runs at a time into the runs of the next level.
RECURSIVE MergePass(_, _, _, _, _)
MergePass(b, files, runs, level, new_runs) ==
    IF runs = << >> THEN [files |-> files, runs |-> new_runs]
    ELSE LET k == MinOf(b.num_memory_blocks - 1, Len(runs))
             runs_subset == SubSeq(runs, 1, k)
             new_run == SortRunName(level, Len(new_runs))
             f1 == TmpFileCreate(files, new_run)
             merged == ExtSortBuffer_iter_merge(
                           b, [j \in 1..k |-> iter_scan(f1, runs_subset[j])], << >>)
             s1 == BufferedWriter_write_all(BufferedWriter(new_run, 1), f1, merged)
             s2 == BufferedWriter_flush(s1.w, s1.files)
         IN  MergePass(b, DeleteRuns(s2.files, runs_subset),
                       SubSeq(runs, k + 1, Len(runs)), level, Append(new_runs, new_run))

\* The passes before the last: until at most M_final runs are left.
RECURSIVE MergePasses(_, _, _, _)
MergePasses(b, files, runs, level) ==
    IF Len(runs) > b.num_memory_blocks_final
    THEN LET p == MergePass(b, files, runs, level, << >>)
         IN  MergePasses(b, p.files, p.runs, level + 1)
    ELSE [files |-> files, runs |-> runs]

\* ExtSortBuffer.iter_and_clear, iterated to its end: the rows yielded and the state left.
ExtSortBuffer_iter_and_clear(b, files) ==
    IF b.num_blocks_flushed = 0
    THEN [out |-> FlushedRows(b), b |-> [b EXCEPT !.buffer = << >>], files |-> files]
    ELSE LET s == IF Len(b.buffer) > 0 THEN ExtSortBuffer_flush(b, files)
                  ELSE [b |-> b, files |-> files]
             p == MergePasses(s.b, s.files, s.b.runs, 1)
         IN  [out |-> ExtSortBuffer_iter_merge(
                          b, [j \in 1..Len(p.runs) |-> iter_scan(p.files, p.runs[j])], << >>),
              b |-> [s.b EXCEPT !.runs = << >>],
              files |-> DeleteRuns(p.files, p.runs)]

----------------------------------------------------------------------------
(* SpecSort: a consumer drives one ExtSortBuffer through add / iter_and_clear *)
(* cycles (MergeSortPop.execute is the first cycle, without deduplicate).   *)

\* Memory blocks of the sort buffer (M); the last pass uses 2 or M.
SortMemoryBlocks == 3
\* Rows added in one cycle, and cycles on one buffer.
MaxAdd == 5
MaxCycles == 2

notSort == <<hj, mj, ag, pl, mat, sg, tm, sess, gens, bw, stg, ncols>>

InitSort ==
    /\ tmp = NoFiles
    /\ hj = Idle
    /\ mj = Idle
    /\ ag = Idle
    /\ pl = Idle
    /\ mat = Idle
    /\ stg = Idle
    /\ bw = Idle
    /\ gens = Idle
    /\ sess = Idle
    /\ tm = Idle
    /\ sg = Idle
    /\ ncols = NumColumns
    /\ \E cmp \in Comparators, mf \in {2, SortMemoryBlocks}, d \in BOOLEAN :
          esb = ExtSortBuffer(cmp, SortMemoryBlocks, mf, d)
    /\ obs = [cycle |-> 0, added |-> << >>, out |-> << >>, fresh |-> FALSE]

\* buffer.add(row)
SortAdd ==
    /\ obs.cycle < MaxCycles
    /\ \E row \in SortRows :
          /\ Len(IF obs.fresh THEN << >> ELSE obs.added) < MaxAdd
          /\ LET s == ExtSortBuffer_add(esb, tmp, row)
             IN  /\ esb' = s.b
                 /\ tmp' = s.files
                 /\ obs' = [obs EXCEPT
                               !.added = (IF obs.fresh THEN << >> ELSE @) \o <<row>>,
                               !.out = << >>, !.fresh = FALSE]
    /\ UNCHANGED notSort

\* for row in buffer.iter_and_clear(): ... (iterated to the end)
SortIterAndClear ==
    /\ obs.cycle < MaxCycles
    /\ ~obs.fresh
    /\ LET s == ExtSortBuffer_iter_and_clear(esb, tmp)
       IN  /\ esb' = s.b
           /\ tmp' = s.files
           /\ obs' = [obs EXCEPT !.cycle = @ + 1, !.out = s.out, !.fresh = TRUE]
    /\ UNCHANGED notSort

NextSort == SortAdd \/ SortIterAndClear

SpecSort == InitSort /\ [][NextSort]_vars

----------------------------------------------------------------------------
(* Properties of the sort.                                                 *)

IsSortedBy(cmp, s) == \A i \in 1..(Len(s) - 1) : compare(cmp, s[i], s[i + 1]) <= 0

Count(s, r) == Cardinality({i \in 1..Len(s) : s[i] = r})

SameBag(s, t) == \A r \in Range(s) \cup Range(t) : Count(s, r) = Count(t, r)

NoEqualRows(s) == \A i, j \in 1..Len(s) : i < j => s[i] # s[j]

\* C5: the sort operator (a fresh buffer without deduplicate, filled and then
\* iterated) emits every input row exactly once, and every consecutive pair of
\* emitted rows satisfies compare <= 0, in memory or through spilled runs and
\* merge passes.
C5_SortEmitsAllInOrder ==
    (obs.fresh /\ obs.cycle = 1 /\ ~esb.deduplicate)
        => (SameBag(obs.out, obs.added) /\ IsSortedBy(esb.compare, obs.out))

\* A sort that spilled three runs and needed a merge pass before the last one.
C5_Witness ==
    /\ obs.fresh /\ obs.cycle = 1 /\ ~esb.deduplicate
    /\ esb.num_blocks_flushed >= 3 * esb.num_memory_blocks
    /\ esb.num_memory_blocks_final = 2
    /\ Len(obs.out) = MaxAdd
    /\ Cardinality(Range(obs.out)) >= 2

\* The sort is stable: rows that compare equal come out in the order they were
\* added, in memory or through spilled runs (the run number breaks ties in the merge).
SortIsStable ==
    (obs.fresh /\ obs.cycle = 1 /\ ~esb.deduplicate)
        => obs.out = SortStable(esb.compare, << >>, obs.added)

\* C6: with deduplicate set, iter_and_clear emits no two rows that are equal by ==,
\* for any added rows, any comparator and any number of spilled runs.
C6_DedupNoEqualRows ==
    (obs.fresh /\ esb.deduplicate) => NoEqualRows(obs.out)

\* C7: a second add / iter_and_clear cycle on the same buffer emits exactly the rows
\* added in that cycle, sorted, and deduplicated if configured.
C7_SecondCycleClean ==
    (obs.fresh /\ obs.cycle = 2)
        => /\ IsSortedBy(esb.compare, obs.out)
           /\ Range(obs.out) = Range(obs.added)
           /\ IF esb.deduplicate THEN NoEqualRows(obs.out)
              ELSE SameBag(obs.out, obs.added)

\* What holds of every cycle when the comparator ties only on equal rows or
\* deduplicate is off: the output is the added rows, sorted, without residue.
SortCycleCleanUnlessTies ==
    (obs.fresh /\ (~esb.deduplicate \/ esb.compare = <<1, 2>>))
        => /\ IsSortedBy(esb.compare, obs.out)
           /\ Range(obs.out) = Range(obs.added)
           /\ IF esb.deduplicate THEN NoEqualRows(obs.out)
              ELSE SameBag(obs.out, obs.added)
           /\ DOMAIN tmp = {}

----------------------------------------------------------------------------
(* BufferedReader and the block nested-loop join.                          *)

\* BufferedReader.iter_buffer: the list of buffers served for an input (a row
\* larger than the budget raises instead; no row of the model is that large).
RECURSIVE iter_buffer(_, _, _, _)
iter_buffer(max_bytes, input, buffer, num_bytes) ==
    IF input = << >> THEN (IF Len(buffer) > 0 THEN <<buffer>> ELSE << >>)
    ELSE IF num_bytes + getsizeof(Head(input)) > max_bytes
         THEN <<buffer>> \o iter_buffer(max_bytes, Tail(input), <<Head(input)>>,
                                        getsizeof(Head(input)))
         ELSE iter_buffer(max_bytes, Tail(input), Append(buffer, Head(input)),
                          num_bytes + getsizeof(Head(input)))

\* The join rows: <<join column, other column>>; the condition equates the join columns.
JoinRows == {<<1, 1>>, <<1, 2>>, <<2, 1>>}
JoinVals == {r[1] : r \in JoinRows}

join_vals(row) == row[1]

\* eq_exec / the BNLJ condition: left join expression == right join expression
eq_cond(this, that) == join_vals(this) = join_vals(that)

RECURSIVE Flatten(_)
Flatten(ss) == IF ss = << >> THEN << >> ELSE Head(ss) \o Flatten(Tail(ss))

\* for outer_row in outer_buffer: if cond: yield (*outer_row, *inner_row)
JoinBufferWithRow(outer_buffer, inner_row) ==
    LET Match(o) == eq_cond(o, inner_row)
        hits == SelectSeq(outer_buffer, Match)
    IN  [i \in 1..Len(hits) |-> hits[i] \o inner_row]

\* BNLJoinPop.execute
BNLJoinPop_execute(left, right, num_memory_blocks) ==
    LET buffers == iter_buffer(num_memory_blocks * BLOCK_SIZE, left, << >>, 0)
    IN  Flatten([b \in 1..Len(buffers) |->
            Flatten([i \in 1..Len(right) |-> JoinBufferWithRow(buffers[b], right[i])])])

----------------------------------------------------------------------------
(* HashEqJoinPop (executor/join/hasheqj.py).                               *)

\* globals.DEFAULT_HASH_MAX_DEPTH
DEFAULT_HASH_MAX_DEPTH == 3
\* HashEqJoinPop._tmp_partition_file: the name of a partition file
PartitionName(side, depth, partition_id) == <<side, depth, partition_id>>

\* A partition is an input operator (pass 0) or a heap file.
PopPartition(rows) == [kind |-> "pop", rows |-> rows]
FilePartition(name) == [kind |-> "file", name |-> name]

PartitionRows(files, part) ==
    IF part.kind = "pop" THEN part.rows ELSE iter_scan(files, part.name)

\* A hash that differs between the two inputs: equal join values of the left and
\* of the right input no longer get equal hash values.
RowHash_by_side(hashOf, side, row) ==
    hashOf[join_vals(row)] + (IF side = "that" THEN 1 ELSE 0)

\* HashEqJoinPop.hash(join_vals_exec.eval(row)): a fixed function of the join values
RowHash(hashOf, side, row) == hashOf[join_vals(row)]

\* h = hash(join_vals) // old_num_partitions; the row goes to partition h % fanout
PartitionOf(h, old_num_partitions, fanout) == (h \div old_num_partitions) % fanout

\* BufferedWriter.write for each row of a list, in order
RECURSIVE BufferedWriter_write_rows(_, _, _)
BufferedWriter_write_rows(w, files, rows) ==
    IF rows = << >> THEN [w |-> w, files |-> files]
    ELSE LET s == BufferedWriter_write(w, files, Head(rows))
         IN  BufferedWriter_write_rows(s.w, s.files, Tail(rows))

\* The body of "for old_i, old_partition in enumerate(old_partitions[ci])" for the
\* new partition j: the file is created, the rows of the old partition whose hash
\* selects j are written through its BufferedWriter, the writer is flushed.
WritePartition(files, rows, hashOf, name, old_num_partitions, fanout, j) ==
    LET Mine(row) == PartitionOf(RowHash(hashOf, name[1], row), old_num_partitions, fanout) = j
        s == BufferedWriter_write_rows(BufferedWriter(name, 1), TmpFileCreate(files, name),
                                       SelectSeq(rows, Mine))
    IN  BufferedWriter_flush(s.w, s.files).files

\* TRUE, once v is worked out: it orders the evaluation as the code orders its
\* statements, where a value would else be worked out only when first read.
Computed(v) == v = v

RECURSIVE WritePartitions(_, _, _, _, _, _, _, _)
WritePartitions(files, rows, hashOf, side, depth, old_i, old_num_partitions, j) ==
    LET fanout == IF depth = 0 THEN hj.num_memory_blocks ELSE hj.num_memory_blocks - 1
    IN  IF j = fanout THEN files
        ELSE WritePartitions(
                 WritePartition(files, rows, hashOf, PartitionName(side, depth, old_i * fanout + j),
                                old_num_partitions, fanout, j),
                 rows, hashOf, side, depth, old_i, old_num_partitions, j + 1)

Max(x, y) == IF x >= y THEN x ELSE y

\* partition_sizes[h % fanout] += getsizeof(row), over the rows of a partition
RECURSIVE SizeOfRows(_)
SizeOfRows(rows) == IF rows = << >> THEN 0 ELSE getsizeof(Head(rows)) + SizeOfRows(Tail(rows))

RECURSIVE MaxOver(_)
MaxOver(sizes) == IF sizes = << >> THEN 0 ELSE Max(Head(sizes), MaxOver(Tail(sizes)))

\* One side of a partitioning pass, old partitions old_i, old_i + 1, ... in order:
\* the files, the new partition list and max_partition_sizes[ci] at the end.
RECURSIVE PartitionSide(_, _, _, _, _, _, _, _)
PartitionSide(files, old_partitions, hashOf, side, depth, old_num_partitions, old_i, acc) ==
    IF old_i = Len(old_partitions) THEN [files |-> files, partitions |-> acc.partitions,
                                         max_size |-> acc.max_size]
    ELSE
    LET fanout == IF depth = 0 THEN hj.num_memory_blocks ELSE hj.num_memory_blocks - 1
        old_partition == old_partitions[old_i + 1]
        rows == PartitionRows(files, old_partition)
        written == WritePartitions(files, rows, hashOf, side, depth, old_i, old_num_partitions, 0)
        names == [j \in 1..fanout |-> PartitionName(side, depth, old_i * fanout + (j - 1))]
        partition_sizes == [j \in 1..fanout |-> SizeOfRows(written[names[j]])]
        removed == IF old_partition.kind = "file"
                   THEN delete_heap_file(written, old_partition.name) ELSE written
        done == [partitions |-> acc.partitions \o [j \in 1..fanout |-> FilePartition(names[j])],
                 max_size |-> Max(acc.max_size, MaxOver(partition_sizes))]
    IN  \* the loop's next iteration starts from what this one has left
        CASE Computed(removed) /\ Computed(done) ->
             PartitionSide(removed, old_partitions, hashOf, side, depth, old_num_partitions,
                           old_i + 1, done)

\* The build and probe of one pair of partitions: the rows it yields.
ProbePair(files, build, probe, build_side) ==
    LET build_rows == PartitionRows(files, build)
        probe_rows == PartitionRows(files, probe)
        \* build_rows_by_join_vals[join_vals], in insertion order
        Bucket(v) == LET Same(row) == join_vals(row) = v IN SelectSeq(build_rows, Same)
        Joined(row) ==
            LET Eq(build_row) == eq_cond(build_row, row)
                hits == SelectSeq(Bucket(join_vals(row)), Eq)
            IN  [i \in 1..Len(hits) |->
                    IF build_side = 0 THEN hits[i] \o row ELSE row \o hits[i]]
    IN  IF Len(build_rows) = 0 THEN << >>
        ELSE Flatten([i \in 1..Len(probe_rows) |-> Joined(probe_rows[i])])

\* delete_heap_file for the partitions of a list that are heap files
RECURSIVE DeletePartitions(_, _)
DeletePartitions(files, parts) ==
    IF parts = << >> THEN files
    ELSE DeletePartitions(IF Head(parts).kind = "file"
                          THEN delete_heap_file(files, Head(parts).name) ELSE files,
                          Tail(parts))

\* zip(partitions[build_side], partitions[1 - build_side])
Zipped(builds, probes) ==
    [i \in 1..(IF Len(builds) <= Len(probes) THEN Len(builds) ELSE Len(probes)) |->
        <<builds[i], probes[i]>>]

\* Memory blocks of the hash join and of the nested-loop join it is compared with
HashMemoryBlocks == 3
BnljMemoryBlocks == 2
\* Rows per join input
MaxJoinRows == 2

SeqsUpTo(S, n) == UNION {[1..k -> S] : k \in 0..n}

\* Hash values of the join values: any function into values that collide in no
\* pass, in pass 0 only, in passes 0 and 1 only (or in every pass, when equal).
HashValues == {0, 1, HashMemoryBlocks, HashMemoryBlocks * (HashMemoryBlocks - 1)}

notHash == <<esb, mj, ag, pl, mat, sg, tm, sess, gens, bw, stg, ncols>>

InitHash ==
    /\ tmp = NoFiles
    /\ esb = Idle
    /\ mj = Idle
    /\ ag = Idle
    /\ pl = Idle
    /\ mat = Idle
    /\ stg = Idle
    /\ bw = Idle
    /\ gens = Idle
    /\ sess = Idle
    /\ tm = Idle
    /\ sg = Idle
    /\ ncols = NumColumns
    /\ \E left \in SeqsUpTo(JoinRows, MaxJoinRows), right \in SeqsUpTo(JoinRows, MaxJoinRows),
          hashOf \in [JoinVals -> HashValues] :
          hj = [pc |-> "partition", left |-> left, right |-> right, hashOf |-> hashOf,
                num_memory_blocks |-> HashMemoryBlocks,
                depth |-> 0, num_partitions |-> 1, build_side |-> 0,
                passes |-> 0, max_partition_sizes |-> <<0, 0>>,
                partitions |-> << <<PopPartition(left)>>, <<PopPartition(right)>> >>]
    /\ obs = [out |-> << >>]

\* A test that lets no partition pass for small enough.
small_enough_never(h, max_partition_size) == FALSE

\* max_partition_sizes[ci] <= (self.num_memory_blocks - 1) * BLOCK_SIZE
small_enough(h, max_partition_size) ==
    max_partition_size <= (h.num_memory_blocks - 1) * BLOCK_SIZE

\* One iteration of "while depth < DEFAULT_HASH_MAX_DEPTH": both sides are
\* partitioned, then the loop breaks when the largest partition of a side fits in
\* M - 1 blocks (that side is the build side), or depth goes up by one.
partition_pass(h, files) ==
    LET fanout == IF h.depth = 0 THEN h.num_memory_blocks ELSE h.num_memory_blocks - 1
        old_num_partitions == h.num_partitions
        this == PartitionSide(files, h.partitions[1], h.hashOf, "this", h.depth,
                              old_num_partitions, 0, [partitions |-> << >>, max_size |-> 0])
        that == PartitionSide(this.files, h.partitions[2], h.hashOf, "that", h.depth,
                              old_num_partitions, 0, [partitions |-> << >>, max_size |-> 0])
        fits == small_enough(h, this.max_size) \/ small_enough(h, that.max_size)
    IN  [files |-> that.files,
         hj |-> [h EXCEPT
                  !.num_partitions = old_num_partitions * fanout,
                  !.partitions = <<this.partitions, that.partitions>>,
                  !.passes = @ + 1,
                  !.max_partition_sizes = <<this.max_size, that.max_size>>,
                  !.build_side = IF small_enough(h, this.max_size) THEN 0
                                 ELSE IF small_enough(h, that.max_size) THEN 1 ELSE @,
                  !.depth = IF fits THEN @ ELSE @ + 1,
                  !.pc = IF fits \/ h.depth + 1 >= DEFAULT_HASH_MAX_DEPTH
                         THEN "probe" ELSE "partition"]]

HashPartitionPass ==
    /\ hj.pc = "partition"
    /\ hj.depth < DEFAULT_HASH_MAX_DEPTH
    /\ LET s == partition_pass(hj, tmp)
       IN  /\ tmp' = s.files
           /\ hj' = s.hj
    /\ UNCHANGED <<obs, notHash>>

\* The probing/joining pass
HashProbeJoin ==
    /\ hj.pc = "probe"
    /\ LET builds == hj.partitions[hj.build_side + 1]
           probes == hj.partitions[(1 - hj.build_side) + 1]
           pairs == Zipped(builds, probes)
       IN  /\ obs' = [obs EXCEPT !.out =
                        Flatten([i \in 1..Len(pairs) |->
                                   ProbePair(tmp, pairs[i][1], pairs[i][2], hj.build_side)])]
           /\ tmp' = DeletePartitions(DeletePartitions(tmp, builds), probes)
    /\ hj' = [hj EXCEPT !.pc = "done"]
    /\ UNCHANGED notHash

NextHash == HashPartitionPass \/ HashProbeJoin

SpecHash == InitHash /\ [][NextHash]_vars

\* C1: whatever the inputs and the hashing, the rows the hash join emits over a
\* list of equi-join pairs are, as a multiset, the rows the block nested-loop
\* join emits for the same inputs and the same equalities.
C1_HashJoinSameAsBNLJ ==
    hj.pc = "done" =>
        SameBag(obs.out, BNLJoinPop_execute(hj.left, hj.right, BnljMemoryBlocks))

\* The depth cap was reached with both sides oversized, and rows joined.
C1_Witness ==
    /\ hj.pc = "done"
    /\ hj.depth = DEFAULT_HASH_MAX_DEPTH
    /\ Len(obs.out) >= 4
    /\ DOMAIN tmp = {}

\* C20: whatever the inputs and the hashing (rows that all have one join value
\* included), at most DEFAULT_HASH_MAX_DEPTH partitioning passes are made; another
\* pass is made only when the largest partition of the left and the largest of
\* the right both exceed (M - 1) * BLOCK_SIZE bytes; and when the passes stop at
\* the cap, the partitions of the last pass are the ones joined, whatever their
\* size, and the rows joined are the rows of the join.
C20_PassesCappedAndStopWhenSmall ==
    LET limit == (HashMemoryBlocks - 1) * BLOCK_SIZE
        small == hj.max_partition_sizes[1] <= limit \/ hj.max_partition_sizes[2] <= limit
    IN  /\ hj.passes <= DEFAULT_HASH_MAX_DEPTH
        /\ (hj.pc = "partition" /\ hj.passes > 0) => ~small
        /\ hj.pc \in {"probe", "done"}
              => /\ hj.passes >= 1
                 /\ small \/ hj.passes = DEFAULT_HASH_MAX_DEPTH
                 /\ \A side \in 1..2 : \A p \in 1..Len(hj.partitions[side]) :
                       hj.partitions[side][p] =
                           FilePartition(PartitionName(IF side = 1 THEN "this" ELSE "that",
                                                       hj.passes - 1, p - 1))
        /\ hj.pc = "done"
              => SameBag(obs.out, BNLJoinPop_execute(hj.left, hj.right, BnljMemoryBlocks))

\* Two rows with one join value on each side: they share a partition in every
\* pass, the cap is reached with both sides over the budget, and the oversized
\* partitions are joined.
C20_Witness ==
    /\ hj.pc = "done"
    /\ hj.passes = DEFAULT_HASH_MAX_DEPTH
    /\ \A side \in 1..2 : hj.max_partition_sizes[side] > (HashMemoryBlocks - 1) * BLOCK_SIZE
    /\ Len(hj.left) = MaxJoinRows /\ Len(hj.right) = MaxJoinRows
    /\ \A i \in 1..MaxJoinRows :
          join_vals(hj.left[i]) = join_vals(hj.left[1])
          /\ join_vals(hj.right[i]) = join_vals(hj.left[1])
    /\ Len(obs.out) = MaxJoinRows * MaxJoinRows

\* The passes stop before the cap as soon as one side is small enough; the
\* small side is the build side, the left one when both are.
HashStopsEarlyOnSmallSide ==
    LET limit == (HashMemoryBlocks - 1) * BLOCK_SIZE
    IN  (hj.pc \in {"probe", "done"} /\ hj.passes < DEFAULT_HASH_MAX_DEPTH)
            => /\ hj.max_partition_sizes[hj.build_side + 1] <= limit
               /\ hj.build_side = 1 => hj.max_partition_sizes[1] > limit
               /\ hj.depth = hj.passes - 1

----------------------------------------------------------------------------
(* AggrPop (executor/aggr.py).                                             *)

\* The string values of the group-by columns, as sequences of characters: "a", "a-a"
GroupVals == {<<"a">>, <<"a", "-", "a">>}

\* The rows an aggregation is fed: <<aggregate input, group-by value, group-by value>>
AggrRows == {<<x, g1, g2>> : x \in {1, 2}, g1 \in GroupVals, g2 \in GroupVals}

\* grp = tuple(group_exec.eval(row0=row) for group_exec in groupby_execs)
grp_of(row) == <<row[2], row[3]>>

\* aggr_input_execs[i].eval(row0=row)
aggr_input(row) == row[1]

\* "-".join(map(str, grp)); str() of a string is the string
grp_key(grp) == grp[1] \o <<"-">> \o grp[2]

\* AggrPop._tmp_file: the heap file '.tmp-' + name
AggrTmpName(name) == <<"group", name>>

\* AVG: code_str_init, code_str_add; the state is (sum, count)
AVG_init == <<0, 0>>
AVG_add(state, new_val) == <<state[1] + new_val, state[2] + 1>>

RECURSIVE GCD(_, _)
GCD(x, y) == IF y = 0 THEN x ELSE GCD(y, x % y)

\* AVG.code_str_finalize: sum / count as a fraction in lowest terms, <<0, 0>> for None
AVG_finalize(state) ==
    IF state[2] = 0 THEN <<0, 0>>
    ELSE <<state[1] \div GCD(state[1], state[2]), state[2] \div GCD(state[1], state[2])>>

\* The first loop of the "needed" branch: a tmp file per change of group; cur is
\* << >> before the first row and <<currgroup, currWriter>> after.
RECURSIVE AggrGroupIntoFiles(_, _, _, _, _)
AggrGroupIntoFiles(files, rows, cur, grouped_files, num_memory_blocks) ==
    IF rows = << >>
    THEN [files |-> IF cur = << >> THEN files ELSE BufferedWriter_flush(cur[2], files).files,
          grouped_files |-> grouped_files]
    ELSE LET row == Head(rows)
             grp == grp_of(row)
             change == cur = << >> \/ cur[1] # grp
             name == AggrTmpName(grp_key(grp))
             closed == IF cur = << >> THEN files ELSE BufferedWriter_flush(cur[2], files).files
             opened == IF change THEN TmpFileCreate(closed, name) ELSE files
             writer == IF change THEN BufferedWriter(name, num_memory_blocks \div 2) ELSE cur[2]
             s == BufferedWriter_write(writer, opened, row)
         IN  AggrGroupIntoFiles(s.files, Tail(rows), <<grp, s.w>>,
                                IF change THEN Append(grouped_files, <<grp, name>>)
                                ELSE grouped_files,
                                num_memory_blocks)

\* finalNeeded is a dict: a list of <<grp_key, (grp, states)>> entries in insertion order.
HasKey(finalNeeded, key) == \E k \in 1..Len(finalNeeded) : finalNeeded[k].key = key

KeyIndex(finalNeeded, key) == CHOOSE k \in 1..Len(finalNeeded) : finalNeeded[k].key = key

\* if grp_key not in finalNeeded: finalNeeded[grp_key] = (grp, [init states])
WithGroup(finalNeeded, grp, aggr_exprs, key) ==
    IF HasKey(finalNeeded, key) THEN finalNeeded
    ELSE Append(finalNeeded, [key |-> key, grp |-> grp,
                              states |-> [i \in 1..Len(aggr_exprs) |-> AVG_init]])

\* finalNeeded[grp_key][1][i] = aggr_add(state, new_val) for each value of a list, in order
RECURSIVE AddValues(_, _)
AddValues(state, vals) ==
    IF vals = << >> THEN state ELSE AddValues(AVG_add(state, Head(vals)), Tail(vals))

\* The loop over sort_buffer.iter_and_clear(): with DISTINCT a value equal to
\* the previous one is skipped.
RECURSIVE DistinctValues(_, _, _)
DistinctValues(rows, is_distinct, previous) ==
    IF rows = << >> THEN << >>
    ELSE LET curr == aggr_input(Head(rows))
             rest == DistinctValues(Tail(rows), is_distinct, <<curr>>)
         IN  IF is_distinct /\ previous = <<curr>> THEN rest ELSE <<curr>> \o rest

\* sort_buffer.add(row) for every row of the group's file
RECURSIVE AddAllToSortBuffer(_, _, _)
AddAllToSortBuffer(b, files, rows) ==
    IF rows = << >> THEN [b |-> b, files |-> files]
    ELSE LET s == ExtSortBuffer_add(b, files, Head(rows))
         IN  AddAllToSortBuffer(s.b, s.files, Tail(rows))

\* The values aggregate i adds for one group file: through a sort buffer ordered
\* by the aggregate's input when the aggregate is not incremental, else as stored.
FileValues(files, name, aggr, num_memory_blocks) ==
    LET rows == iter_scan(files, name)
    IN  IF aggr.is_distinct
        THEN LET filled == AddAllToSortBuffer(
                               ExtSortBuffer(<<1>>, num_memory_blocks, num_memory_blocks, TRUE),
                               files, rows)
                 sorted == ExtSortBuffer_iter_and_clear(filled.b, filled.files).out
             IN  DistinctValues(sorted, TRUE, << >>)
        ELSE [k \in 1..Len(rows) |-> aggr_input(rows[k])]

\* The second and third loops of the "needed" branch
RECURSIVE AggrFromFiles(_, _, _, _, _)
AggrFromFiles(files, grouped_files, aggr_exprs, num_memory_blocks, finalNeeded) ==
    IF grouped_files = << >> THEN finalNeeded
    ELSE LET k == KeyIndex(finalNeeded, grp_key(Head(grouped_files)[1]))
             name == Head(grouped_files)[2]
         IN  AggrFromFiles(files, Tail(grouped_files), aggr_exprs, num_memory_blocks,
                 [finalNeeded EXCEPT ![k].states =
                     [i \in 1..Len(aggr_exprs) |->
                         AddValues(@[i], FileValues(files, name, aggr_exprs[i],
                                                    num_memory_blocks))]])

RECURSIVE InitGroups(_, _, _)
InitGroups(grps, aggr_exprs, finalNeeded) ==
    IF grps = << >> THEN finalNeeded
    ELSE InitGroups(Tail(grps), aggr_exprs,
                    WithGroup(finalNeeded, Head(grps), aggr_exprs, grp_key(Head(grps))))

\* The loop of the "not needed" branch
RECURSIVE AggrFromInput(_, _, _)
AggrFromInput(rows, aggr_exprs, finalNeeded) ==
    IF rows = << >> THEN finalNeeded
    ELSE LET grp == grp_of(Head(rows))
             f1 == WithGroup(finalNeeded, grp, aggr_exprs, grp_key(grp))
             k == KeyIndex(f1, grp_key(grp))
         IN  AggrFromInput(Tail(rows), aggr_exprs,
                 [f1 EXCEPT ![k].states =
                     [i \in 1..Len(aggr_exprs) |-> AVG_add(@[i], aggr_input(Head(rows)))]])

\* The last loop: original_group + tuple(finals) for every entry of finalNeeded
AggrOutput(finalNeeded) ==
    [k \in 1..Len(finalNeeded) |->
        finalNeeded[k].grp \o [i \in 1..Len(finalNeeded[k].states) |->
                                  AVG_finalize(finalNeeded[k].states[i])]]

\* Memory blocks of the aggregation, rows of its input, columns of its rows
AggrMemoryBlocks == 3
MaxAggrRows == 3
AggrColumns == 3

\* AVG(x) alone, AVG(x) with AVG(DISTINCT x), AVG(DISTINCT x) alone
AggrExprLists ==
    {<<[is_distinct |-> FALSE]>>,
     <<[is_distinct |-> FALSE], [is_distinct |-> TRUE]>>,
     <<[is_distinct |-> TRUE]>>}

notAggr == <<esb, hj, mj, pl, mat, sg, tm, sess, gens, bw, stg, ncols>>

InitAggr ==
    /\ tmp = NoFiles
    /\ esb = Idle
    /\ mj = Idle
    /\ hj = Idle
    /\ pl = Idle
    /\ mat = Idle
    /\ stg = Idle
    /\ bw = Idle
    /\ gens = Idle
    /\ sess = Idle
    /\ tm = Idle
    /\ sg = Idle
    /\ ncols = AggrColumns
    /\ \E input \in SeqsUpTo(AggrRows, MaxAggrRows), aggr_exprs \in AggrExprLists :
          ag = [pc |-> "start", input |-> input, aggr_exprs |-> aggr_exprs,
                num_memory_blocks |-> AggrMemoryBlocks,
                needed |-> \E i \in 1..Len(aggr_exprs) : aggr_exprs[i].is_distinct,
                grouped_files |-> << >>, finalNeeded |-> << >>, ended_by |-> "none"]
    /\ obs = [out |-> << >>]

\* if needed: the input is read once and split into one tmp file per change of group
AggrGroup ==
    /\ ag.pc = "start"
    /\ ag.needed
    /\ LET s == AggrGroupIntoFiles(tmp, ag.input, << >>, << >>, ag.num_memory_blocks)
       IN  /\ tmp' = s.files
           /\ ag' = [ag EXCEPT !.pc = "grouped", !.grouped_files = s.grouped_files]
    /\ UNCHANGED <<obs, notAggr>>

\* else-branch of "if not needed": the aggregate states are computed from the files
AggrFiles ==
    /\ ag.pc = "grouped"
    /\ ag' = [ag EXCEPT !.pc = "aggregated",
                !.finalNeeded =
                    AggrFromFiles(tmp, ag.grouped_files, ag.aggr_exprs, ag.num_memory_blocks,
                        InitGroups([k \in 1..Len(ag.grouped_files) |-> ag.grouped_files[k][1]],
                                   ag.aggr_exprs, << >>))]
    /\ UNCHANGED <<tmp, obs, notAggr>>

\* if not needed: the aggregate states are computed while the input is read
AggrInput ==
    /\ ag.pc = "start"
    /\ ~ag.needed
    /\ ag' = [ag EXCEPT !.pc = "aggregated",
                        !.finalNeeded = AggrFromInput(ag.input, ag.aggr_exprs, << >>)]
    /\ UNCHANGED <<tmp, obs, notAggr>>

\* the output rows, yielded once every input row has been processed
AggrYield ==
    /\ ag.pc = "aggregated"
    /\ ag' = [ag EXCEPT !.pc = "done"]
    /\ obs' = [obs EXCEPT !.out = AggrOutput(ag.finalNeeded)]
    /\ UNCHANGED <<tmp, notAggr>>

\* Session.request once the last row is printed: tmp_tx.commit() makes what the
\* statement left under tmp_tx part of the tmp space (with autocommit off, of the
\* parent tmp transaction, which COMMIT commits in turn); an abort (ROLLBACK of
\* the parent tmp transaction) discards it.  Nothing calls an operator again.
AggrStatementEnd ==
    /\ ag.pc = "done"
    /\ \E how \in {"commit", "abort"} :
          /\ ag' = [ag EXCEPT !.pc = "ended", !.ended_by = how]
          /\ tmp' = IF how = "commit" THEN tmp ELSE NoFiles
    /\ UNCHANGED <<obs, notAggr>>

NextAggr == AggrGroup \/ AggrFiles \/ AggrInput \/ AggrYield \/ AggrStatementEnd

SpecAggr == InitAggr /\ [][NextAggr]_vars

\* The maximal runs of consecutive rows with equal group-by values.
RECURSIVE RunsOf(_, _)
RunsOf(rows, runs) ==
    IF rows = << >> THEN runs
    ELSE IF runs # << >> /\ grp_of(runs[Len(runs)][1]) = grp_of(Head(rows))
         THEN RunsOf(Tail(rows), [runs EXCEPT ![Len(runs)] = Append(@, Head(rows))])
         ELSE RunsOf(Tail(rows), Append(runs, <<Head(rows)>>))

RECURSIVE SumOfSet(_)
SumOfSet(S) == IF S = {} THEN 0 ELSE LET x == CHOOSE y \in S : TRUE IN x + SumOfSet(S \ {x})

RECURSIVE SumOfSeq(_)
SumOfSeq(q) == IF q = << >> THEN 0 ELSE Head(q) + SumOfSeq(Tail(q))

\* The average of the inputs of a list of rows (of its distinct inputs with DISTINCT).
AverageOver(rows, aggr) ==
    LET vals == [k \in 1..Len(rows) |-> aggr_input(rows[k])]
    IN  IF aggr.is_distinct
        THEN AVG_finalize(<<SumOfSet(Range(vals)), Cardinality(Range(vals))>>)
        ELSE AVG_finalize(<<SumOfSeq(vals), Len(vals)>>)

\* One row per run: its group-by values, then each aggregate over the rows of the run.
RowsPerRun(input, aggr_exprs) ==
    LET runs == RunsOf(input, << >>)
    IN  [k \in 1..Len(runs) |->
            grp_of(runs[k][1]) \o [i \in 1..Len(aggr_exprs) |-> AverageOver(runs[k], aggr_exprs[i])]]

GroupsOf(rows) == {grp_of(rows[k]) : k \in 1..Len(rows)}

\* rows with equal group-by values are contiguous: every group is one run
GroupedInput(input) == Len(RunsOf(input, << >>)) = Cardinality(GroupsOf(input))

\* C2: given an input in which rows with equal group-by values are contiguous,
\* the aggregation emits exactly one output row per maximal run of equal
\* group-by values: as many rows as runs, one carrying the values of each run.
C2_OneRowPerRun ==
    (ag.pc = "done" /\ GroupedInput(ag.input)) =>
        LET runs == RunsOf(ag.input, << >>)
        IN  SameBag([k \in 1..Len(obs.out) |-> SubSeq(obs.out[k], 1, 2)],
                    [k \in 1..Len(runs) |-> grp_of(runs[k][1])])

\* C3: a group is identified by the tuple of its group-by values: distinct
\* tuples in the input give distinct output rows, whatever text they render to.
C3_GroupIsTheTuple ==
    ag.pc = "done" =>
        /\ Len(obs.out) >= Cardinality(GroupsOf(ag.input))
        /\ \A g \in GroupsOf(ag.input) : \E k \in 1..Len(obs.out) : SubSeq(obs.out[k], 1, 2) = g

\* When every group is one run and no two groups of the input render to the same
\* text, there is one output row per run, with each aggregate over the rows of the run.
AggrRightOnGroupedInput ==
    (/\ ag.pc = "done"
     /\ GroupedInput(ag.input)
     /\ \A g, h \in GroupsOf(ag.input) : grp_key(g) = grp_key(h) => g = h)
    => obs.out = RowsPerRun(ag.input, ag.aggr_exprs)

\* C19: once the statement has run to completion and its transactions have
\* ended, by commit or by abort, no tmp heap file of the aggregation is left in
\* the tmp space.
C19_NoTmpFileAfterStatement ==
    ag.pc = "ended" => DOMAIN tmp = {}

\* What is left: nothing after an abort; after a commit, the file of every group
\* the aggregation wrote (it writes them when an aggregate is not incremental).
GroupFilesOutliveCommit ==
    ag.pc = "ended"
        => DOMAIN tmp = IF ag.ended_by = "abort" THEN {}
                        ELSE {ag.grouped_files[k][2] : k \in 1..Len(ag.grouped_files)}

----------------------------------------------------------------------------
(* The mini block nested-loop join of the merge equi-join                  *)
(* (executor/join/mergeeqj.py, mini_bnlcj_execute).                        *)

\* the two tmp files of the operator: .tmp-<id>-left and .tmp-<id>-right
MergeTmpName(side) == <<"mergeeqj", side>>

\* source(i) with the spilled file left unread
mini_bnlcj_source_buffer_only(w, files) == <<w.buffer>>

\* source(i) of mini_bnlcj_execute: the in-memory buffer of a writer that never
\* flushed, else the file read back a block at a time
mini_bnlcj_source(w, files) ==
    IF w.num_blocks_flushed = 0
    THEN <<w.buffer>>
    ELSE iter_buffer(BLOCK_SIZE, iter_scan(files, w.file), << >>, 0)

\* mini_bnlcj_execute: the side that flushed more is the outer one; left
\* columns come first either way
mini_bnlcj_execute(writer0, writer1, files) ==
    LET reverse == writer0.num_blocks_flushed > writer1.num_blocks_flushed
        outer == IF reverse THEN mini_bnlcj_source(writer1, files)
                            ELSE mini_bnlcj_source(writer0, files)
        inner == IF reverse THEN mini_bnlcj_source(writer0, files)
                            ELSE mini_bnlcj_source(writer1, files)
    IN  Flatten([o \in 1..Len(outer) |->
          Flatten([n \in 1..Len(inner) |->
            Flatten([i \in 1..Len(outer[o]) |->
              [j \in 1..Len(inner[n]) |->
                  IF reverse THEN inner[n][j] \o outer[o][i]
                             ELSE outer[o][i] \o inner[n][j]]])])])

----------------------------------------------------------------------------
(* Plans: operators, their compiled ordering/uniqueness properties and the *)
(* rows they yield.  Columns are numbered from 1; every ordering is        *)
(* ascending, the only direction the planner asks for.                     *)

TableScanPop(table) == [op |-> "scan", table |-> table]
MergeSortPop(input, cols) == [op |-> "sort", input |-> input, cols |-> cols]
MergeEqJoinPop(left, right, lcol, rcol) ==
    [op |-> "merge", left |-> left, right |-> right, lcol |-> lcol, rcol |-> rcol]
\* an index nested-loop join whose inner is the primary index of table, looked up by column lcol of left
IndexNLJoinPop(left, table, lcol) == [op |-> "indexnlj", left |-> left, table |-> table, lcol |-> lcol]

\* Columns of a base table: the primary key (read out first), then one unindexed column
TableColumnNames == <<"id", "v">>
TableColumns == Len(TableColumnNames)

\* the elements of cols that are not in skip, in order
Without(cols, skip) == LET Keep(c) == c \notin skip IN SelectSeq(cols, Keep)

Shifted(cols, offset) == [k \in 1..Len(cols) |-> cols[k] + offset]

\* MergeSortPop._infer_ordering_props (every sort expression is an output column)
MergeSort_infer_ordering_props(input_props, cols) ==
    cols \o Without(input_props.ordered_columns, Range(cols))

\* The inference without its one-many / many-one case split: the ordering of both
\* inputs beyond the join columns is kept whatever the uniqueness of the join columns.
MergeEqJoin_infer_ordering_regardless(left_props, right_props, lcol, rcol) ==
    [ordered_columns |-> left_props.ordered_columns
                         \o Shifted(Without(right_props.ordered_columns, {rcol}),
                                    left_props.width),
     unique_columns |-> {}]

\* MergeEqJoinPop._infer_ordering_uniqueness_props, one pair of join columns
MergeEqJoin_infer_ordering_uniqueness_props(left_props, right_props, lcol, rcol) ==
    LET left_is_nice == lcol \in left_props.unique_columns
        right_is_nice == rcol \in right_props.unique_columns
        col_i_offset == left_props.width
        right_rest == Shifted(Without(right_props.ordered_columns, {rcol}), col_i_offset)
    IN  IF left_is_nice
        THEN [ordered_columns |-> left_props.ordered_columns \o right_rest,
              unique_columns |-> {c + col_i_offset : c \in right_props.unique_columns}
                                 \cup (IF right_is_nice THEN left_props.unique_columns ELSE {})]
        ELSE IF right_is_nice
        THEN [ordered_columns |-> <<lcol>> \o right_rest
                                  \o Without(left_props.ordered_columns, {lcol}),
              unique_columns |-> left_props.unique_columns]
        ELSE [ordered_columns |-> <<lcol>>, unique_columns |-> {}]

\* IndexNLJoinPop._infer_ordering_uniqueness_props, the lookup key being column lcol
\* of the outer and the inner a primary index scan (ordered by and unique on column 1)
IndexNLJoin_infer_ordering_uniqueness_props(left_props, lcol) ==
    [ordered_columns |-> IF left_props.ordered_columns = <<lcol>>
                         THEN <<lcol, left_props.width + 1>>
                         ELSE left_props.ordered_columns,
     unique_columns |-> IF lcol \in left_props.unique_columns
                        THEN {left_props.width + 1} ELSE {}]

\* QPop.compiled: width, ordered_columns and unique_columns of a plan
RECURSIVE compiled(_)
compiled(pop) ==
    IF pop.op = "scan"
    THEN [width |-> TableColumns, ordered_columns |-> <<1>>, unique_columns |-> {1}]
    ELSE IF pop.op = "sort"
    THEN [compiled(pop.input) EXCEPT
             !.ordered_columns = MergeSort_infer_ordering_props(compiled(pop.input), pop.cols)]
    ELSE IF pop.op = "merge"
    THEN LET p == MergeEqJoin_infer_ordering_uniqueness_props(
                      compiled(pop.left), compiled(pop.right), pop.lcol, pop.rcol)
         IN  [width |-> compiled(pop.left).width + compiled(pop.right).width,
              ordered_columns |-> p.ordered_columns, unique_columns |-> p.unique_columns]
    ELSE LET p == IndexNLJoin_infer_ordering_uniqueness_props(compiled(pop.left), pop.lcol)
         IN  [width |-> compiled(pop.left).width + TableColumns,
              ordered_columns |-> p.ordered_columns, unique_columns |-> p.unique_columns]

\* The leading rows of a sorted input that carry value v in column col:
\* the batch mini_bjlcj_prepare collects.
RECURSIVE Batch(_, _, _)
Batch(rows, col, v) ==
    IF rows = << >> \/ Head(rows)[col] # v THEN << >>
    ELSE <<Head(rows)>> \o Batch(Tail(rows), col, v)

\* What _helper of mini_bjlcj_prepare leaves for one batch: the writer of one
\* block, flushed at the end if it ever spilled, and the tmp file
mini_bjlcj_batch(files, name, batch) ==
    LET s == BufferedWriter_write_all(BufferedWriter(name, 1), TmpFileCreate(files, name), batch)
    IN  IF s.w.num_blocks_flushed > 0 THEN BufferedWriter_flush(s.w, s.files) ELSE s

\* mini_bjlcj_prepare and mini_bnlcj_execute over the two batches of one join value
CrossProduct(batch0, batch1) ==
    LET h0 == mini_bjlcj_batch(NoFiles, MergeTmpName("left"), batch0)
        h1 == mini_bjlcj_batch(h0.files, MergeTmpName("right"), batch1)
    IN  mini_bnlcj_execute(h0.w, h1.w, h1.files)

\* MergeEqJoinPop.execute
RECURSIVE MergeEqJoinPop_execute(_, _, _, _)
MergeEqJoinPop_execute(left, right, lcol, rcol) ==
    IF left = << >> \/ right = << >> THEN << >>
    ELSE LET cmp_result == Cmp3(Head(left)[lcol], Head(right)[rcol])
         IN  IF cmp_result < 0 THEN MergeEqJoinPop_execute(Tail(left), right, lcol, rcol)
             ELSE IF cmp_result > 0 THEN MergeEqJoinPop_execute(left, Tail(right), lcol, rcol)
             ELSE LET batch0 == Batch(left, lcol, Head(left)[lcol])
                      batch1 == Batch(right, rcol, Head(right)[rcol])
                  IN  CrossProduct(batch0, batch1)
                      \o MergeEqJoinPop_execute(SubSeq(left, Len(batch0) + 1, Len(left)),
                                                SubSeq(right, Len(batch1) + 1, Len(right)),
                                                lcol, rcol)

\* IndexNLJoinPop.execute: for each outer row, the inner rows whose primary key is the lookup key
IndexNLJoinPop_execute(left, inner, lcol) ==
    Flatten([i \in 1..Len(left) |->
                LET Hit(row) == row[1] = left[i][lcol]
                    hits == SelectSeq(inner, Hit)
                IN  [j \in 1..Len(hits) |-> left[i] \o hits[j]]])

\* QPop.execute: the rows a plan yields over the tables db (each stored in key order)
RECURSIVE execute(_, _)
execute(pop, db) ==
    IF pop.op = "scan" THEN db[pop.table]
    ELSE IF pop.op = "sort" THEN SortStable(pop.cols, << >>, execute(pop.input, db))
    ELSE IF pop.op = "merge"
    THEN MergeEqJoinPop_execute(execute(pop.left, db), execute(pop.right, db), pop.lcol, pop.rcol)
    ELSE IndexNLJoinPop_execute(execute(pop.left, db), db[pop.table], pop.lcol)

----------------------------------------------------------------------------
(* BaselinePlanner (planner/baseline.py) and add_groupby_by_sorting.       *)

\* CompiledProps.is_ordered for one expression: the first ordered column is col
is_ordered(props, col) ==
    Len(props.ordered_columns) >= 1 /\ props.ordered_columns[1] = col

\* BaselinePlanner.make_sorted for one expression
make_sorted(pop, col) ==
    IF is_ordered(compiled(pop), col) THEN pop ELSE MergeSortPop(pop, <<col>>)

\* BaselinePlanner.make_smjoin for one pair of join columns
make_smjoin(left, right, lcol, rcol) ==
    MergeEqJoinPop(make_sorted(left, lcol), make_sorted(right, rcol), lcol, rcol)

\* BaselinePlanner.optimize_one_more_table for a table joined by lcol = rcol: a
\* Sarg exists when rcol is the primary key, the only indexed column; the
\* sort-merge join is enabled.
optimize_one_more_table(left, table, lcol, rcol, index_join) ==
    IF rcol = 1 /\ index_join THEN IndexNLJoinPop(left, table, lcol)
    ELSE make_smjoin(left, TableScanPop(table), lcol, rcol)

\* The loop of optimize_block over the FROM list: tables 1, 2, ... in order, table
\* k + 1 joined by joins[k].
RECURSIVE optimize_from(_, _, _, _)
optimize_from(plan, k, joins, index_join) ==
    IF k > Len(joins) THEN plan
    ELSE optimize_from(optimize_one_more_table(plan, k + 1, joins[k].lcol, joins[k].rcol,
                                               index_join),
                       k + 1, joins, index_join)

\* add_groupby_by_sorting, every GROUP BY expression being an output column
add_groupby_by_sorting(input, groupby_column_indices) ==
    IF \A k \in 1..Len(groupby_column_indices) :
           groupby_column_indices[k] \in Range(compiled(input).ordered_columns)
    THEN input
    ELSE MergeSortPop(input, groupby_column_indices)

\* Rows per base table
MaxTableRows == 3

\* The size of a row in columns when rows are wide: two rows fill a block
PlanWideColumns == 200

\* The unindexed column of the row with key k: the key again, 1 and 2 in turn, or 1 throughout
ColumnKinds == {"same", "alternating", "constant"}

ColumnValue(kind, k) ==
    IF kind = "same" THEN k ELSE IF kind = "alternating" THEN 1 + (k % 2) ELSE 1

\* The rows of a base table, in the order of a scan: by primary key
TableRows(kind) == [k \in 1..MaxTableRows |-> <<k, ColumnValue(kind, k)>>]

\* SELECT ... FROM t1, t2, t3 WHERE t1.x = t2.y AND <t1 or t2>.z = t3.w GROUP BY ...
FromAliases == <<"t1", "t2", "t3">>
FromTables == Len(FromAliases)
JoinChoices ==
    {<<j1, j2>> : j1 \in [lcol : 1..TableColumns, rcol : 1..TableColumns],
                  j2 \in [lcol : 1..(2 * TableColumns), rcol : 1..TableColumns]}
GroupByChoices ==
    {<<g>> : g \in 1..(FromTables * TableColumns)}
    \cup {<<g, h>> : g \in {1, 2}, h \in 3..(FromTables * TableColumns)}

notPlan == <<tmp, esb, hj, mj, ag, mat, sg, tm, sess, gens, bw, stg, ncols>>

InitPlan ==
    /\ tmp = NoFiles
    /\ esb = Idle
    /\ mj = Idle
    /\ hj = Idle
    /\ ag = Idle
    /\ mat = Idle
    /\ stg = Idle
    /\ bw = Idle
    /\ gens = Idle
    /\ sess = Idle
    /\ tm = Idle
    /\ sg = Idle
    /\ ncols \in {FromTables * TableColumns, PlanWideColumns}
    /\ \E kinds \in [1..FromTables -> ColumnKinds], joins \in JoinChoices,
          groupby \in GroupByChoices, index_join \in BOOLEAN :
          pl = [pc |-> "block", db |-> [t \in 1..FromTables |-> TableRows(kinds[t])],
                joins |-> joins, groupby |-> groupby, index_join |-> index_join,
                plan |-> Idle]
    /\ obs = [out |-> << >>]

\* BaselinePlanner.optimize_block up to the input of the aggregation
PlanOptimizeBlock ==
    /\ pl.pc = "block"
    /\ pl' = [pl EXCEPT !.pc = "planned",
                !.plan = add_groupby_by_sorting(
                             optimize_from(TableScanPop(1), 1, pl.joins, pl.index_join),
                             pl.groupby)]
    /\ UNCHANGED <<obs, notPlan>>

\* The aggregation pulls its input to the end
PlanExecute ==
    /\ pl.pc = "planned"
    /\ pl' = [pl EXCEPT !.pc = "executed"]
    /\ obs' = [obs EXCEPT !.out = execute(pl.plan, pl.db)]
    /\ UNCHANGED notPlan

NextPlan == PlanOptimizeBlock \/ PlanExecute

SpecPlan == InitPlan /\ [][NextPlan]_vars

\* the values of the group-by columns of a row
GroupByValues(row, groupby) == [k \in 1..Len(groupby) |-> row[groupby[k]]]

\* every group is one run of consecutive rows
Contiguous(rows, groupby) ==
    \A i, j \in 1..Len(rows) :
        (i < j /\ GroupByValues(rows[i], groupby) = GroupByValues(rows[j], groupby))
        => GroupByValues(rows[i + 1], groupby) = GroupByValues(rows[i], groupby)

\* C4: in the plan of a SELECT block with GROUP BY, the rows fed to the
\* aggregation have all rows of one group next to each other.
C4_GroupsContiguous ==
    pl.pc = "executed" => Contiguous(obs.out, pl.groupby)

\* The rows a plan yields are sorted by the ordered columns it declares.
PlanOrderedAsDeclared ==
    pl.pc = "executed" => IsSortedBy(compiled(pl.plan).ordered_columns, obs.out)

\* every operator of a plan: the plan and the operators below it
RECURSIVE SubPlans(_)
SubPlans(pop) ==
    {pop} \cup (IF pop.op = "scan" THEN {}
               ELSE IF pop.op = "sort" THEN SubPlans(pop.input)
               ELSE IF pop.op = "merge" THEN SubPlans(pop.left) \cup SubPlans(pop.right)
               ELSE SubPlans(pop.left))

InheritedOrderMatters(p, db) ==
    LET oc == compiled(p).ordered_columns
        rows == execute(p, db)
    IN  \E i \in 1..(Len(rows) - 1) :
            /\ rows[i][oc[1]] = rows[i + 1][oc[1]]
            /\ rows[i][oc[Len(oc)]] # rows[i + 1][oc[Len(oc)]]

----------------------------------------------------------------------------
(* MaterializePop (executor/materialize.py) over a scan of a base table,   *)
(* pulled by a reader or by the INSERT ... SELECT / DELETE command that    *)
(* writes the same table (planner/interface.py, executor/command.py).      *)

\* Keys of the base table before the statement
MaxKey == 3

\* MaterializePop._tmp_file: '.tmp-' + id(self) + '-' + id(self.input)
MaterializeTmpName == <<"materialize", 0, 0>>

\* MaterializePop(...) as the constructor defaults it: blocking = False
MaterializeBlocking_default(consumer) == FALSE

\* Planner.plan: INSERT ... SELECT and DELETE wrap their query in MaterializePop(..., blocking=True)
MaterializeBlocking(consumer) == TRUE

\* The input of the materialization, SELECT ... FROM t WHERE id <= MaxKey, is a
\* cursor over the live table: the next row is the one with the least key
\* above the last key read.
InputHasNext(m) == \E k \in m.table : k > m.cursor /\ k <= MaxKey

InputNext(m) == CHOOSE k \in m.table : /\ k > m.cursor /\ k <= MaxKey
                                       /\ \A j \in m.table : (j > m.cursor /\ j <= MaxKey) => k <= j

\* What the consumer does with a row it is handed: InsertPop.execute puts the
\* row computed from it (SELECT id + MaxKey), DeletePop.execute deletes the row
\* with its key, a reader only keeps it.
Consume(m, row) ==
    IF m.consumer = "insert"
    THEN [m EXCEPT !.table = @ \cup {row[1] + MaxKey}, !.applied = @ + 1]
    ELSE IF m.consumer = "delete"
    THEN [m EXCEPT !.table = @ \ {row[1]}, !.applied = @ + 1]
    ELSE m

\* The rows of the cache: "leverage the materialized results"
CachedRows(m, files) ==
    IF m.writer[1].num_blocks_flushed > 0 THEN iter_scan(files, MaterializeTmpName)
    ELSE m.writer[1].buffer

\* execute() reaches "if self.writer is None" for the first time: the writer and its tmp file
FirstRun(m, files) ==
    IF m.call = "created"
    THEN [m |-> [m EXCEPT !.call = "first", !.cursor = 0, !.input_runs = @ + 1,
                          !.writer = <<BufferedWriter(MaterializeTmpName, m.num_memory_blocks)>>],
          files |-> TmpFileCreate(files, MaterializeTmpName)]
    ELSE [m |-> m, files |-> files]

Yielded(o, row) == [o EXCEPT !.calls[Len(o.calls)].rows = Append(@, row)]

Returned(o) == [o EXCEPT !.calls[Len(o.calls)].exhausted = TRUE]

\* Memory blocks of the materialization and execute() calls made by a reader
MaterializeBudgets == {1, 3}
MaxCalls == 2

notMat == <<esb, hj, mj, ag, pl, sg, tm, sess, gens, bw, stg, ncols>>

InitMat ==
    /\ tmp = NoFiles
    /\ esb = Idle
    /\ mj = Idle
    /\ hj = Idle
    /\ ag = Idle
    /\ pl = Idle
    /\ sg = Idle
    /\ tm = Idle
    /\ sess = Idle
    /\ gens = Idle
    /\ bw = Idle
    /\ stg = Idle
    /\ ncols = NumColumns
    /\ \E table \in SUBSET (1..MaxKey), consumer \in {"reader", "insert", "delete"},
          blocking \in BOOLEAN, num_memory_blocks \in MaterializeBudgets :
          /\ consumer # "reader" => blocking = MaterializeBlocking(consumer)
          /\ mat = [consumer |-> consumer, blocking |-> blocking,
                    num_memory_blocks |-> num_memory_blocks, writer |-> << >>,
                    table |-> table, cursor |-> 0, input_runs |-> 0, input_done |-> FALSE,
                    call |-> "none", served |-> 0, applied |-> 0]
          /\ obs = [calls |-> << >>, closed |-> FALSE, table0 |-> table]

\* The consumer calls execute(): a generator that has not run yet
MatExecute ==
    /\ mat.call \in {"none", "finished", "closed"}
    /\ Len(obs.calls) < (IF mat.consumer = "reader" THEN MaxCalls ELSE 1)
    /\ mat' = [mat EXCEPT !.call = "created", !.served = 0]
    /\ obs' = [obs EXCEPT !.calls = Append(@, [rows |-> << >>, exhausted |-> FALSE])]
    /\ UNCHANGED <<tmp, notMat>>

\* First run, one iteration of "for row in self.input.execute()": the row is
\* written to the cache and, unless blocking, yielded to the consumer
MatFirstRead ==
    /\ (mat.call = "created" /\ mat.writer = << >>) \/ mat.call = "first"
    /\ LET f == FirstRun(mat, tmp)
           row == <<InputNext(f.m)>>
           w == BufferedWriter_write(f.m.writer[1], f.files, row)
           m1 == [f.m EXCEPT !.cursor = row[1], !.writer = <<w.w>>]
       IN  /\ InputHasNext(f.m)
           /\ tmp' = w.files
           /\ mat' = IF mat.blocking THEN m1 ELSE Consume(m1, row)
           /\ obs' = IF mat.blocking THEN obs ELSE Yielded(obs, row)
    /\ UNCHANGED notMat

\* First run, the input is exhausted: the cache is completed; a non-blocking
\* call returns, a blocking one goes on to serve the cache
MatInputEnd ==
    /\ (mat.call = "created" /\ mat.writer = << >>) \/ mat.call = "first"
    /\ LET f == FirstRun(mat, tmp)
           w == IF f.m.writer[1].num_blocks_flushed > 0
                THEN BufferedWriter_flush(f.m.writer[1], f.files)
                ELSE [w |-> f.m.writer[1], files |-> f.files]
       IN  /\ ~InputHasNext(f.m)
           /\ tmp' = w.files
           /\ mat' = [f.m EXCEPT !.writer = <<w.w>>, !.input_done = TRUE,
                                 !.call = IF mat.blocking THEN "cache" ELSE "finished"]
           /\ obs' = IF mat.blocking THEN obs ELSE Returned(obs)
    /\ UNCHANGED notMat

\* A row of the cache is yielded to the consumer
MatServe ==
    /\ (mat.call = "created" /\ mat.writer # << >>) \/ mat.call = "cache"
    /\ mat.served < Len(CachedRows(mat, tmp))
    /\ LET row == CachedRows(mat, tmp)[mat.served + 1]
       IN  /\ mat' = Consume([mat EXCEPT !.call = "cache", !.served = @ + 1], row)
           /\ obs' = Yielded(obs, row)
    /\ UNCHANGED <<tmp, notMat>>

\* The cache is exhausted: the call returns
MatReturn ==
    /\ (mat.call = "created" /\ mat.writer # << >>) \/ mat.call = "cache"
    /\ mat.served = Len(CachedRows(mat, tmp))
    /\ mat' = [mat EXCEPT !.call = "finished"]
    /\ obs' = Returned(obs)
    /\ UNCHANGED <<tmp, notMat>>

\* A reader closes the generator at the yield it is suspended at
MatClose ==
    /\ mat.consumer = "reader"
    /\ mat.call \in {"first", "cache"}
    /\ obs.calls[Len(obs.calls)].rows # << >>
    /\ mat' = [mat EXCEPT !.call = "closed"]
    /\ obs' = [obs EXCEPT !.closed = TRUE]
    /\ UNCHANGED <<tmp, notMat>>

NextMat == MatExecute \/ MatFirstRead \/ MatInputEnd \/ MatServe \/ MatReturn \/ MatClose

SpecMat == InitMat /\ [][NextMat]_vars

\* the call received every row of the table once
CompleteRows(rows, table) ==
    /\ Len(rows) = Cardinality(table)
    /\ Range(rows) = {<<k>> : k \in table}

\* C8: every execute() call on one MaterializePop emits the same multiset of
\* rows, the complete input, and the input is run once only.
C8_SameRowsEveryCall ==
    mat.consumer = "reader" =>
        /\ mat.input_runs <= 1
        /\ \A c \in 1..Len(obs.calls) :
               obs.calls[c].exhausted => CompleteRows(obs.calls[c].rows, mat.table)

\* As long as no call is closed before its end, every call emits the complete input.
MatCompleteUnlessClosed ==
    (mat.consumer = "reader" /\ ~obs.closed) =>
        /\ mat.input_runs <= 1
        /\ \A c \in 1..Len(obs.calls) :
               obs.calls[c].exhausted => CompleteRows(obs.calls[c].rows, mat.table)

\* C9: in INSERT ... SELECT and in DELETE, no row is written to or removed from
\* the table before the blocking materialization has read its input to the
\* end, and the rows the command is handed are those of the table as it was.
C9_NoWriteBeforeDrained ==
    (mat.consumer \in {"insert", "delete"} /\ Len(obs.calls) > 0) =>
        /\ (mat.applied > 0 \/ obs.calls[1].rows # << >>) => mat.input_done
        /\ mat.call = "finished" => CompleteRows(obs.calls[1].rows, obs.table0)

\* A DELETE over a full table ran to its end from a spilled cache.
C9_Witness ==
    /\ mat.consumer = "delete"
    /\ mat.call = "finished"
    /\ mat.applied = MaxKey
    /\ mat.table = {}
    /\ mat.writer[1].num_blocks_flushed > 0

\* ---------------------------------------------------------------------
\* Sargs: planner/baseline.py (sarg_cond, _gen_sarg, make_independent_index_scan)
\* and executor/indexscan.py (set_range, execute)
\* ---------------------------------------------------------------------

\* Python's None, and a value that is not None
None == << >>

Some(v) == <<v>>

\* the comparison classes of validator/valexpr/binary.py
CompareOps == {"EQ", "NE", "LT", "LE", "GT", "GE"}

\* A comparison between a column of the table and a literal; col_left tells
\* which child is the column reference: `t.c op literal` or `literal op t.c`.
CompareOpValExpr(op, column, col_left, literal) ==
    [op |-> op, column |-> column, col_left |-> col_left, literal |-> literal]

\* the comparison, applied to the values of its left and right child
CompareOp(op, a, b) ==
    CASE op = "EQ" -> a = b
      [] op = "NE" -> a # b
      [] op = "LT" -> a < b
      [] op = "LE" -> a <= b
      [] op = "GT" -> a > b
      [] op = "GE" -> a >= b

\* the value of one conjunctive part on a row of the table
eval(part, row) ==
    IF part.col_left
    THEN CompareOp(part.op, row[part.column], part.literal)
    ELSE CompareOp(part.op, part.literal, row[part.column])

\* Parts are told apart by identity (ValExpr defines no __eq__): a part is
\* named by its position in the list of conjunctive parts.
Indices(parts) == [i \in 1..Len(parts) |-> i]

Sarg(is_range, key_lower, key_upper, lower_exclusive, upper_exclusive) ==
    [is_range |-> is_range, key_lower |-> key_lower, key_upper |-> key_upper,
     lower_exclusive |-> lower_exclusive, upper_exclusive |-> upper_exclusive]

\* the body of the loop of _gen_sarg for candidate i
gen_sarg_candidate(acc, parts, i) ==
    LET cond == parts[i]
        bound == Some(cond.literal)
        bound_is_right == cond.col_left
        sarg == acc.sarg
    IN  IF cond.op = "EQ"
        THEN [sarg |-> Sarg(FALSE, bound, bound, FALSE, FALSE), covered |-> <<i>>]
        ELSE IF \/ (cond.op \in {"GE", "GT"} /\ bound_is_right)
                \/ (~bound_is_right /\ cond.op \in {"LE", "LT"})
        THEN IF sarg.key_lower # None
             THEN acc
             ELSE [sarg |-> [sarg EXCEPT !.is_range = TRUE,
                                         !.key_lower = bound,
                                         !.lower_exclusive = cond.op \in {"GT", "LT"}],
                   covered |-> Append(acc.covered, i)]
        ELSE IF \/ (cond.op \in {"LE", "LT"} /\ bound_is_right)
                \/ (~bound_is_right /\ cond.op \in {"GE", "GT"})
        THEN IF sarg.key_upper # None
             THEN acc
             ELSE [sarg |-> [sarg EXCEPT !.is_range = TRUE,
                                         !.key_upper = bound,
                                         !.upper_exclusive = cond.op \in {"GT", "LT"}],
                   covered |-> Append(acc.covered, i)]
        ELSE acc

RECURSIVE gen_sarg_loop(_, _, _)
gen_sarg_loop(acc, parts, candidates) ==
    IF candidates = << >>
    THEN acc
    ELSE gen_sarg_loop(gen_sarg_candidate(acc, parts, Head(candidates)), parts, Tail(candidates))

\* _gen_sarg: the "best" sarg over the candidates, and the candidates it covers
gen_sarg(parts, candidates) ==
    gen_sarg_loop([sarg |-> Sarg(FALSE, None, None, FALSE, FALSE), covered |-> << >>],
                  parts, candidates)

\* The table of the statement: column 1 is its primary key, column 2 may
\* carry a secondary index.
primary_key_column_index == 1

indexed_column_names(secondary_column_indices) ==
    {primary_key_column_index} \cup secondary_column_indices

\* sarg_cond, first loop: is the part attached to an indexed column
IsCandidate(part, indexed) == part.op # "NE" /\ part.column \in indexed

\* the keys of candidates_map, in the order a dict keeps them (first insertion)
RECURSIVE candidates_map_keys(_, _, _, _)
candidates_map_keys(parts, indexed, i, keys) ==
    IF i > Len(parts)
    THEN keys
    ELSE candidates_map_keys(parts, indexed, i + 1,
             IF IsCandidate(parts[i], indexed) /\ parts[i].column \notin Range(keys)
             THEN Append(keys, parts[i].column)
             ELSE keys)

\* candidates_map[column_name]
candidates_map(parts, indexed, column) ==
    SelectSeq(Indices(parts),
              LAMBDA i : IsCandidate(parts[i], indexed) /\ parts[i].column = column)

\* sarg_cond, second loop: prefer EQ, then the primary key
RECURSIVE pick_best(_, _, _, _)
pick_best(parts, indexed, keys, best) ==
    IF keys = << >>
    THEN best
    ELSE LET column_name == Head(keys)
             gen == gen_sarg(parts, candidates_map(parts, indexed, column_name))
             replace ==
                 IF best = None THEN TRUE
                 ELSE IF best[1].sarg.is_range /\ ~gen.sarg.is_range THEN TRUE
                 ELSE IF best[1].sarg.is_range = gen.sarg.is_range
                         /\ column_name = primary_key_column_index THEN TRUE
                 ELSE FALSE
         IN  pick_best(parts, indexed, Tail(keys),
                 IF replace
                 THEN Some([column |-> column_name, sarg |-> gen.sarg, covered |-> gen.covered])
                 ELSE best)

\* sarg_cond: None, or (index column, Sarg, remainder); the remainder is the
\* list of the parts make_conjunction is given
sarg_cond(parts, secondary_column_indices) ==
    LET indexed == indexed_column_names(secondary_column_indices)
        best == pick_best(parts, indexed,
                          candidates_map_keys(parts, indexed, 1, << >>), None)
    IN  IF best = None
        THEN None
        ELSE Some([column_index |-> best[1].column,
                   sarg |-> best[1].sarg,
                   remainder |->
                       IF Len(best[1].covered) = 0
                       THEN Indices(parts)
                       ELSE SelectSeq(Indices(parts),
                                      LAMBDA i : i \notin Range(best[1].covered))])

\* IndexScanPop after set_range; a Sarg always carries both flags
IndexScanPop(column, key_lower, key_upper, lower_exclusive, upper_exclusive) ==
    [column |-> column, key_lower |-> key_lower, key_upper |-> key_upper,
     lower_exclusive |-> lower_exclusive, upper_exclusive |-> upper_exclusive]

\* make_independent_index_scan: the literal bounds are evaluated at compile time
make_independent_index_scan(column_index, sarg) ==
    IndexScanPop(column_index, sarg.key_lower, sarg.key_upper,
                 sarg.lower_exclusive, sarg.upper_exclusive)

\* The B+tree on a column of the table, in key order: the primary index holds
\* the rows, a secondary index holds (key, primary key) and each entry is
\* resolved to its row by retrieve_base_by_key.
RECURSIVE index_storage(_, _)
index_storage(rows, column) ==
    IF rows = {}
    THEN << >>
    ELSE LET first == CHOOSE r \in rows : \A o \in rows :
                          compare(<<column, primary_key_column_index>>, r, o) <= 0
         IN  <<first>> \o index_storage(rows \ {first}, column)

BplusTree_iter_get(file, column, key) ==
    SelectSeq(file, LAMBDA row : row[column] = key)

BplusTree_iter_scan(file, column, key_lower) ==
    IF key_lower = None
    THEN file
    ELSE SelectSeq(file, LAMBDA row : row[column] >= key_lower[1])

\* A scan loop that never skips: every entry from the seek position up to the
\* upper bound is yielded, whatever lower_exclusive says
IndexScanPop_scan_no_skip(pop, entries) ==
    SelectSeq(entries, LAMBDA row :
        ~(/\ pop.key_upper # None
          /\ (\/ row[pop.column] > pop.key_upper[1]
              \/ (pop.upper_exclusive /\ row[pop.column] >= pop.key_upper[1]))))

\* the loop of IndexScanPop.execute over the cursor: continue below an
\* exclusive lower bound, break past the upper bound
RECURSIVE IndexScanPop_scan(_, _)
IndexScanPop_scan(pop, entries) ==
    IF entries = << >>
    THEN << >>
    ELSE LET key == Head(entries)[pop.column]
         IN  IF pop.key_lower # None /\ pop.lower_exclusive /\ key <= pop.key_lower[1]
             THEN IndexScanPop_scan(pop, Tail(entries))
             ELSE IF /\ pop.key_upper # None
                     /\ (\/ key > pop.key_upper[1]
                         \/ (pop.upper_exclusive /\ key >= pop.key_upper[1]))
             THEN << >>
             ELSE <<Head(entries)>> \o IndexScanPop_scan(pop, Tail(entries))

IndexScanPop_execute(pop, rows) ==
    LET file == index_storage(rows, pop.column)
    IN  IF pop.key_lower = pop.key_upper /\ pop.key_lower # None
        THEN BplusTree_iter_get(file, pop.column, pop.key_lower[1])
        ELSE IndexScanPop_scan(pop, BplusTree_iter_scan(file, pop.column, pop.key_lower))

\* FilterPop (or the condition of the join back to the base table): the rows
\* on which every part of the remainder holds
FilterPop_execute(input, parts, remainder) ==
    SelectSeq(input, LAMBDA row : \A i \in Range(remainder) : eval(parts[i], row))

\* keys and literals are drawn from 1..MaxLiteral, a condition has at most
\* MaxParts conjunctive parts
MaxLiteral == 3

MaxParts == 2

\* the second column repeats values, so that a secondary index has duplicates
SecondaryValue(k) == (k % 2) + 1

SargTableRows(keys) == {<<k, SecondaryValue(k)>> : k \in keys}

SargTableColumns == {primary_key_column_index, primary_key_column_index + 1}

SargParts ==
    {CompareOpValExpr(op, column, col_left, literal) :
        op \in CompareOps, column \in SargTableColumns,
        col_left \in BOOLEAN, literal \in 1..MaxLiteral}

notSarg == <<esb, hj, mj, ag, pl, mat, tm, sess, gens, bw, stg, ncols>>

\* SELECT * FROM t WHERE part AND ... AND part, over a table t(id PRIMARY KEY, v)
InitSarg ==
    /\ tmp = NoFiles
    /\ esb = Idle
    /\ mj = Idle
    /\ hj = Idle
    /\ ag = Idle
    /\ pl = Idle
    /\ mat = Idle
    /\ stg = Idle
    /\ bw = Idle
    /\ gens = Idle
    /\ sess = Idle
    /\ tm = Idle
    /\ ncols = Cardinality(SargTableColumns)
    /\ obs = << >>
    /\ \E keys \in SUBSET (1..MaxLiteral),
          secondary \in {{}, {primary_key_column_index + 1}},
          parts \in SeqsUpTo(SargParts, MaxParts) \ {<< >>} :
           sg = [pc |-> "parsed", rows |-> SargTableRows(keys),
                 secondary_column_indices |-> secondary,
                 parts |-> parts, sarg_cond_out |-> None,
                 pop |-> None, cond |-> << >>]

\* optimize_one_more_table with no left plan: an index scan if the condition
\* is sargable, and a filtered table scan otherwise
SargOptimize ==
    /\ sg.pc = "parsed"
    /\ LET sarg_cond_out == sarg_cond(sg.parts, sg.secondary_column_indices)
       IN  sg' = [sg EXCEPT
                    !.pc = "planned",
                    !.sarg_cond_out = sarg_cond_out,
                    !.pop = IF sarg_cond_out = None
                            THEN None
                            ELSE Some(make_independent_index_scan(
                                          sarg_cond_out[1].column_index,
                                          sarg_cond_out[1].sarg)),
                    !.cond = IF sarg_cond_out = None
                             THEN Indices(sg.parts)
                             ELSE sarg_cond_out[1].remainder]
    /\ UNCHANGED <<tmp, obs, notSarg>>

\* execute() of the plan, read to its end
SargExecute ==
    /\ sg.pc = "planned"
    /\ sg' = [sg EXCEPT !.pc = "done"]
    /\ obs' = FilterPop_execute(
                  IF sg.pop = None
                  THEN index_storage(sg.rows, primary_key_column_index)
                  ELSE IndexScanPop_execute(sg.pop[1], sg.rows),
                  sg.parts, sg.cond)
    /\ UNCHANGED <<tmp, notSarg>>

NextSarg == SargOptimize \/ SargExecute

SpecSarg == InitSarg /\ [][NextSarg]_vars

\* the rows of the table on which the whole condition holds
Satisfying(rows, parts) ==
    {row \in rows : \A i \in 1..Len(parts) : eval(parts[i], row)}

\* C10: whenever sarg_cond returns (index column, Sarg, remainder), the index
\* scan with that Sarg followed by the remainder filter yields exactly the rows
\* of the table that satisfy the original condition.
C10_SargAndRemainderIsCondition ==
    (sg.pc = "done" /\ sg.sarg_cond_out # None) =>
        /\ Range(obs) = Satisfying(sg.rows, sg.parts)
        /\ Len(obs) = Cardinality(Satisfying(sg.rows, sg.parts))

\* Both bounds of the Sarg are the same key and one of them is exclusive.
EmptyRangeOnOneKey(sarg) ==
    /\ sarg.key_lower # None
    /\ sarg.key_lower = sarg.key_upper
    /\ (sarg.lower_exclusive \/ sarg.upper_exclusive)

\* Except for such a Sarg, the plan yields exactly the satisfying rows.
SargRightUnlessEmptyRangeOnOneKey ==
    (sg.pc = "done" /\ sg.sarg_cond_out # None
        /\ ~EmptyRangeOnOneKey(sg.sarg_cond_out[1].sarg)) =>
        /\ Range(obs) = Satisfying(sg.rows, sg.parts)
        /\ Len(obs) = Cardinality(Satisfying(sg.rows, sg.parts))

\* ---------------------------------------------------------------------
\* Index scans on their own: executor/indexscan.py (set_key, set_range, execute)
\* ---------------------------------------------------------------------

\* set_key: look up one key
IndexScanPop_set_key(column, key) ==
    [column |-> column, key_lower |-> Some(key), key_upper |-> Some(key),
     lower_exclusive |-> FALSE, upper_exclusive |-> FALSE]

\* set_range: a flag given as None counts as False
IndexScanPop_set_range(column, key_lower, key_upper, lower_exclusive, upper_exclusive) ==
    [column |-> column, key_lower |-> key_lower, key_upper |-> key_upper,
     lower_exclusive |-> IF lower_exclusive = None THEN FALSE ELSE lower_exclusive[1],
     upper_exclusive |-> IF upper_exclusive = None THEN FALSE ELSE upper_exclusive[1]]

\* a key or None; a flag or None
OptionalKeys == {None} \cup {Some(k) : k \in 1..MaxLiteral}

OptionalFlags == {None, Some(FALSE), Some(TRUE)}

notScan == <<esb, hj, mj, ag, pl, mat, tm, sess, gens, bw, stg, ncols>>

\* An IndexScanPop over the primary or the secondary index of t(id PRIMARY KEY, v)
InitScan ==
    /\ tmp = NoFiles
    /\ esb = Idle
    /\ mj = Idle
    /\ hj = Idle
    /\ ag = Idle
    /\ pl = Idle
    /\ mat = Idle
    /\ stg = Idle
    /\ bw = Idle
    /\ gens = Idle
    /\ sess = Idle
    /\ tm = Idle
    /\ ncols = Cardinality(SargTableColumns)
    /\ obs = << >>
    /\ \E keys \in SUBSET (1..MaxLiteral), column \in SargTableColumns :
           sg = [pc |-> "constructed", rows |-> SargTableRows(keys),
                 pop |-> IndexScanPop(column, None, None, FALSE, FALSE)]

ScanSetKey ==
    /\ sg.pc = "constructed"
    /\ \E key \in 1..MaxLiteral :
           sg' = [sg EXCEPT !.pc = "set", !.pop = IndexScanPop_set_key(sg.pop.column, key)]
    /\ UNCHANGED <<tmp, obs, notScan>>

ScanSetRange ==
    /\ sg.pc = "constructed"
    /\ \E key_lower \in OptionalKeys, key_upper \in OptionalKeys,
          lower_exclusive \in OptionalFlags, upper_exclusive \in OptionalFlags :
           sg' = [sg EXCEPT !.pc = "set",
                            !.pop = IndexScanPop_set_range(sg.pop.column, key_lower, key_upper,
                                                           lower_exclusive, upper_exclusive)]
    /\ UNCHANGED <<tmp, obs, notScan>>

\* execute(), read to its end
ScanExecute ==
    /\ sg.pc = "set"
    /\ sg' = [sg EXCEPT !.pc = "done"]
    /\ obs' = IndexScanPop_execute(sg.pop, sg.rows)
    /\ UNCHANGED <<tmp, notScan>>

NextScan == ScanSetKey \/ ScanSetRange \/ ScanExecute

SpecScan == InitScan /\ [][NextScan]_vars

\* the key satisfies both bounds of the scan, each with its exclusivity
WithinBounds(pop, key) ==
    /\ pop.key_lower # None =>
           IF pop.lower_exclusive THEN key > pop.key_lower[1] ELSE key >= pop.key_lower[1]
    /\ pop.key_upper # None =>
           IF pop.upper_exclusive THEN key < pop.key_upper[1] ELSE key <= pop.key_upper[1]

\* C11: with key_lower == key_upper the scan is a point lookup that returns the
\* entries with that key; otherwise it is a range scan that emits entries in
\* ascending key order, none past the upper bound, none equal to an exclusive
\* lower bound, and all the entries within the bounds.
C11_PointLookupAndRangeScan ==
    sg.pc = "done" =>
        /\ NoEqualRows(obs)
        /\ IsSortedBy(<<sg.pop.column>>, obs)
        /\ IF sg.pop.key_lower = sg.pop.key_upper /\ sg.pop.key_lower # None
           THEN Range(obs) = {row \in sg.rows : row[sg.pop.column] = sg.pop.key_lower[1]}
           ELSE Range(obs) = {row \in sg.rows : WithinBounds(sg.pop, row[sg.pop.column])}

\* A range scan met an entry at its exclusive lower bound and an entry past its
\* upper bound, and yielded what lies between.
C11_Witness ==
    /\ sg.pc = "done"
    /\ sg.pop.key_lower # None /\ sg.pop.key_upper # None
    /\ sg.pop.key_lower # sg.pop.key_upper
    /\ sg.pop.lower_exclusive
    /\ \E row \in sg.rows : row[sg.pop.column] = sg.pop.key_lower[1]
    /\ \E row \in sg.rows : row[sg.pop.column] > sg.pop.key_upper[1]
    /\ obs # << >>

\* ---------------------------------------------------------------------
\* Merge equi-join: executor/join/mergeeqj.py (execute, mini_bjlcj_prepare,
\* mini_bnlcj_execute)
\* ---------------------------------------------------------------------

\* cmp_exec over one pair of join expressions (the first column of each input)
merge_cmp_exec(asc, this, that) ==
    IF (IF asc THEN this[1] < that[1] ELSE this[1] > that[1])
    THEN -1
    ELSE IF this[1] = that[1] THEN 0 ELSE 1

\* side_eq_execs: two rows of the same input carry the same join value
side_eq_exec(this, that) == this[1] = that[1]

\* the loop of _helper: rows are written while they equal the starting row;
\* next is the position of the first row that does not (past the end for None)
RECURSIVE mini_bjlcj_helper_loop(_, _, _, _, _)
mini_bjlcj_helper_loop(w, files, starting_row, input, i) ==
    IF i > Len(input) \/ ~side_eq_exec(starting_row, input[i])
    THEN IF w.num_blocks_flushed > 0
         THEN LET f == BufferedWriter_flush(w, files)
              IN  [w |-> f.w, files |-> f.files, next |-> i]
         ELSE [w |-> w, files |-> files, next |-> i]
    ELSE LET s == BufferedWriter_write(w, files, input[i])
         IN  mini_bjlcj_helper_loop(s.w, s.files, starting_row, input, i + 1)

\* _helper of mini_bjlcj_prepare for the input whose current row is input[i]
mini_bjlcj_helper(files, name, input, i) ==
    LET s == BufferedWriter_write(BufferedWriter(name, 1), TmpFileCreate(files, name), input[i])
    IN  mini_bjlcj_helper_loop(s.w, s.files, input[i], input, i + 1)

\* inputs of up to MaxMergeRows rows with join values in 1..MaxMergeKey
MaxMergeRows == 3

MaxMergeKey == 2

\* narrow rows stay in the writer's block; two wide rows fill it
MergeNarrowColumns == 2

MergeWideColumns == 200

\* the sequence of join values is in the order the join is told
MergeSorted(keys, asc) ==
    \A i \in 1..(Len(keys) - 1) : IF asc THEN keys[i] <= keys[i + 1] ELSE keys[i] >= keys[i + 1]

\* the rows of an input: <<join value, tag>>; left tags are positive and right
\* tags negative, so that the side of every column of an output row shows
MergeInput(keys, sign) == [i \in 1..Len(keys) |-> <<keys[i], sign * i>>]

notMerge == <<esb, hj, ag, pl, mat, sg, tm, sess, gens, bw, stg>>

InitMerge ==
    /\ tmp = NoFiles
    /\ esb = Idle
    /\ hj = Idle
    /\ ag = Idle
    /\ pl = Idle
    /\ mat = Idle
    /\ stg = Idle
    /\ bw = Idle
    /\ gens = Idle
    /\ sess = Idle
    /\ tm = Idle
    /\ sg = Idle
    /\ ncols \in {MergeNarrowColumns, MergeWideColumns}
    /\ obs = << >>
    /\ \E asc \in BOOLEAN,
          lkeys \in SeqsUpTo(1..MaxMergeKey, MaxMergeRows),
          rkeys \in SeqsUpTo(1..MaxMergeKey, MaxMergeRows) :
           /\ MergeSorted(lkeys, asc)
           /\ MergeSorted(rkeys, asc)
           /\ mj = [pc |-> "created", orders_asc |-> asc,
                    left |-> MergeInput(lkeys, 1), right |-> MergeInput(rkeys, -1),
                    row0 |-> 0, row1 |-> 0,
                    writer0 |-> None, writer1 |-> None]

\* execute() up to the loop: both tmp files are opened (created if missing)
\* and the first row of each input is fetched
MergeOpen ==
    /\ mj.pc = "created"
    /\ tmp' = [n \in (DOMAIN tmp) \cup {MergeTmpName("left"), MergeTmpName("right")} |->
                  IF n \in DOMAIN tmp THEN tmp[n] ELSE << >>]
    /\ mj' = [mj EXCEPT !.pc = "merging", !.row0 = 1, !.row1 = 1]
    /\ UNCHANGED <<obs, ncols, notMerge>>

\* one iteration of the loop with cmp_result # 0: the smaller side advances
MergeAdvance ==
    /\ mj.pc = "merging"
    /\ mj.row0 <= Len(mj.left) /\ mj.row1 <= Len(mj.right)
    /\ LET cmp_result == merge_cmp_exec(mj.orders_asc, mj.left[mj.row0], mj.right[mj.row1])
       IN  /\ cmp_result # 0
           /\ mj' = IF cmp_result < 0 THEN [mj EXCEPT !.row0 = @ + 1]
                                      ELSE [mj EXCEPT !.row1 = @ + 1]
    /\ UNCHANGED <<tmp, obs, ncols, notMerge>>

\* one iteration with cmp_result = 0: both batches are collected, then joined
MergeBatch ==
    /\ mj.pc = "merging"
    /\ mj.row0 <= Len(mj.left) /\ mj.row1 <= Len(mj.right)
    /\ merge_cmp_exec(mj.orders_asc, mj.left[mj.row0], mj.right[mj.row1]) = 0
    /\ LET h0 == mini_bjlcj_helper(tmp, MergeTmpName("left"), mj.left, mj.row0)
           h1 == mini_bjlcj_helper(h0.files, MergeTmpName("right"), mj.right, mj.row1)
       IN  /\ tmp' = h1.files
           /\ obs' = obs \o mini_bnlcj_execute(h0.w, h1.w, h1.files)
           /\ mj' = [mj EXCEPT !.row0 = h0.next, !.row1 = h1.next,
                               !.writer0 = Some(h0.w), !.writer1 = Some(h1.w)]
    /\ UNCHANGED <<ncols, notMerge>>

\* one input is exhausted: the generator returns
MergeReturn ==
    /\ mj.pc = "merging"
    /\ mj.row0 > Len(mj.left) \/ mj.row1 > Len(mj.right)
    /\ mj' = [mj EXCEPT !.pc = "done"]
    /\ UNCHANGED <<tmp, obs, ncols, notMerge>>

NextMerge == MergeOpen \/ MergeAdvance \/ MergeBatch \/ MergeReturn

SpecMerge == InitMerge /\ [][NextMerge]_vars

\* every pair of a left and a right row with the same join value, left columns first
MergePairs(left, right) ==
    {left[p[1]] \o right[p[2]] :
        p \in {q \in (1..Len(left)) \X (1..Len(right)) : left[q[1]][1] = right[q[2]][1]}}

\* C12: over two inputs sorted on the join expression in the same direction,
\* the merge join emits, for each join value, exactly the cross product of the
\* left and the right rows with that value, each pair once and left columns
\* first, spilled batches or not, and nothing for a value on one side only.
C12_MergeJoinCrossProductPerKey ==
    mj.pc = "done" =>
        /\ NoEqualRows(obs)
        /\ Range(obs) = MergePairs(mj.left, mj.right)

\* The join ended after a batch that spilled on the left and stayed in memory on
\* the right, with a join value present on one side only.
C12_Witness ==
    /\ mj.pc = "done"
    /\ mj.writer0 # None
    /\ mj.writer0[1].num_blocks_flushed > 0
    /\ mj.writer1[1].num_blocks_flushed = 0
    /\ Len(obs) >= MaxMergeRows
    /\ \E j \in 1..Len(mj.right) : \A i \in 1..Len(mj.left) : mj.left[i][1] # mj.right[j][1]

----------------------------------------------------------------------------
(* Transactions: LMDBTransactionManager (transaction/baseline.py) over the *)
(* two LMDB environments of LMDBStorageManager (storage/lmdb.py).  A       *)
(* transaction is its index in tm.txs; its lmdb_tx handle is the pair of   *)
(* valid (the handle has been neither committed nor aborted) and data (the *)
(* keys the handle sees: LMDB gives a nested transaction the view of its   *)
(* parent, merges it back on commit and drops it on abort).                *)

\* parent = None
NoTx == 0

NoError == "no error"

\* LMDBTransaction.__init__ / LMDBTransactionInTmp
LMDBTransaction(parent, read_only, is_tmp, data) ==
    [parent |-> parent, read_only |-> read_only, tmp |-> is_tmp,
     status |-> "ACTIVE", valid |-> TRUE, data |-> data]

\* LMDBTransactionManager.get_children
get_children(t, tx) == {c \in 1..Len(t.txs) : t.txs[c].parent = tx}

\* env.begin(parent=..., write=...) raises: LMDB nests write transactions only,
\* under a parent handle that is still valid and has no unfinished child
lmdb_begin_raises(t, parent, write) ==
    /\ parent # NoTx
    /\ \/ ~write
       \/ t.txs[parent].read_only
       \/ ~t.txs[parent].valid
       \/ \E c \in get_children(t, parent) : t.txs[c].valid

\* env.begin(write=True) without parent does not return while another write
\* transaction of the environment is unfinished (one writer per environment)
lmdb_begin_waits(t, parent, write, is_tmp) ==
    /\ parent = NoTx
    /\ write
    /\ \E c \in 1..Len(t.txs) :
          t.txs[c].valid /\ ~t.txs[c].read_only /\ t.txs[c].tmp = is_tmp

\* LMDBTransactionManager.begin_transaction
begin_transaction(t, parent, read_only, is_tmp) ==
    IF parent # NoTx /\ (\/ t.txs[parent].read_only /\ ~read_only
                         \/ t.txs[parent].tmp # is_tmp)
    THEN [tm |-> t, tx |-> NoTx, raised |-> "cannot nest"]
    ELSE IF lmdb_begin_raises(t, parent, ~read_only)
    THEN [tm |-> t, tx |-> NoTx, raised |-> "lmdb.Error"]
    ELSE [tm |-> [t EXCEPT !.txs = Append(@, LMDBTransaction(parent, read_only, is_tmp,
                                     IF parent # NoTx THEN t.txs[parent].data
                                     ELSE IF is_tmp THEN t.tmp_env ELSE t.env))],
          tx |-> Len(t.txs) + 1, raised |-> NoError]

\* the handles nested in the handle of tx that are still valid, at any depth
RECURSIVE ValidBelow(_, _)
ValidBelow(t, tx) ==
    UNION {{c} \cup ValidBelow(t, c) : c \in {d \in get_children(t, tx) : t.txs[d].valid}}

\* lmdb_tx.commit(): the handle ends; what it wrote becomes part of its parent's
\* view, or of the environment when it has no parent
lmdb_commit(t, tx) ==
    LET x == t.txs[tx]
        done == [t EXCEPT !.txs[tx].valid = FALSE]
    IN  IF x.read_only THEN done
        ELSE IF x.parent # NoTx THEN [done EXCEPT !.txs[x.parent].data = x.data]
        ELSE IF x.tmp THEN [done EXCEPT !.tmp_env = x.data]
        ELSE [done EXCEPT !.env = x.data]

\* lmdb_tx.abort(): the handle ends, and with it every handle nested in it
lmdb_abort(t, tx) ==
    LET ended == [c \in 1..Len(t.txs) |->
                    IF c = tx \/ c \in ValidBelow(t, tx)
                    THEN [t.txs[c] EXCEPT !.valid = FALSE]
                    ELSE t.txs[c]]
    IN  IF Computed(ended) THEN [t EXCEPT !.txs = ended] ELSE t

\* LMDBTransactionManager.commit
commit(t, tx) ==
    IF t.txs[tx].status # "ACTIVE"
    THEN [tm |-> t, raised |-> "cannot commit inactive transaction"]
    ELSE IF \E child \in get_children(t, tx) : t.txs[child].status = "ACTIVE"
    THEN [tm |-> t, raised |-> "cannot commit transaction with active nested transaction"]
    ELSE [tm |-> [lmdb_commit(t, tx) EXCEPT !.txs[tx].status = "COMMITTED"],
          raised |-> NoError]

\* an abort that leaves the nested transactions alone
abort_children_skipped(t, tx, c) == t

\* LMDBTransactionManager.abort; abort_children is its loop over tx.children
\* from position c on
RECURSIVE abort(_, _), abort_children(_, _, _)
abort_children(t, tx, c) ==
    IF c > Len(t.txs) THEN t
    ELSE abort_children(IF t.txs[c].parent = tx /\ t.txs[c].status = "ACTIVE"
                        THEN abort(t, c).tm ELSE t,
                        tx, c + 1)

abort(t, tx) ==
    IF t.txs[tx].status # "ACTIVE"
    THEN [tm |-> t, raised |-> "cannot abort inactive transaction"]
    ELSE [tm |-> [lmdb_abort(abort_children(t, tx, 1), tx) EXCEPT !.txs[tx].status = "ABORTED"],
          raised |-> NoError]

\* Transactions begun in one run, and those of them without a parent
MaxTx == 4
MaxTopLevelTx == 2

notTx == <<tmp, esb, hj, mj, ag, pl, mat, sg, sess, gens, bw, stg, ncols>>

InitTx ==
    /\ tmp = NoFiles
    /\ esb = Idle
    /\ hj = Idle
    /\ mj = Idle
    /\ ag = Idle
    /\ pl = Idle
    /\ mat = Idle
    /\ stg = Idle
    /\ bw = Idle
    /\ gens = Idle
    /\ sg = Idle
    /\ sess = Idle
    /\ ncols = NumColumns
    /\ tm = [txs |-> << >>, env |-> {}, tmp_env |-> {}]
    /\ obs = [raised |-> NoError]

\* tm.begin_transaction(parent, read_only, tmp)
TxBegin ==
    /\ Len(tm.txs) < MaxTx
    /\ \E parent \in 0..Len(tm.txs), read_only \in BOOLEAN, is_tmp \in BOOLEAN :
          /\ parent = NoTx => Cardinality(get_children(tm, NoTx)) < MaxTopLevelTx
          /\ ~lmdb_begin_waits(tm, parent, ~read_only, is_tmp)
          /\ LET r == begin_transaction(tm, parent, read_only, is_tmp)
             IN  /\ tm' = r.tm
                 /\ obs' = [raised |-> r.raised]
    /\ UNCHANGED notTx

\* tm.commit(tx)
TxCommit ==
    /\ \E tx \in 1..Len(tm.txs) :
          LET r == commit(tm, tx)
          IN  /\ tm' = r.tm
              /\ obs' = [raised |-> r.raised]
    /\ UNCHANGED notTx

\* tm.abort(tx)
TxAbort ==
    /\ \E tx \in 1..Len(tm.txs) :
          LET r == abort(tm, tx)
          IN  /\ tm' = r.tm
              /\ obs' = [raised |-> r.raised]
    /\ UNCHANGED notTx

NextTx == TxBegin \/ TxCommit \/ TxAbort

SpecTx == InitTx /\ [][NextTx]_vars

\* no transaction is ACTIVE under a parent that is not
NoChildOutlivesParent ==
    \A c \in 1..Len(tm.txs) :
        (tm.txs[c].status = "ACTIVE" /\ tm.txs[c].parent # NoTx)
            => tm.txs[tm.txs[c].parent].status = "ACTIVE"

\* a step that commits a transaction finds none of its children ACTIVE, and a
\* step that aborts one leaves none of its children ACTIVE
ParentEndsAfterChildren ==
    \A p \in 1..Len(tm.txs) :
        /\ (tm.txs[p].status = "ACTIVE" /\ tm'.txs[p].status = "COMMITTED")
              => \A c \in get_children(tm, p) : tm.txs[c].status # "ACTIVE"
        /\ (tm.txs[p].status = "ACTIVE" /\ tm'.txs[p].status = "ABORTED")
              => \A c \in get_children(tm, p) : tm'.txs[c].status = "ABORTED"
                                                  \/ tm.txs[c].status = "COMMITTED"

\* C14: after any sequence of begin_transaction, commit and abort calls no
\* transaction is ACTIVE while its parent is COMMITTED or ABORTED; an abort of
\* a parent aborts its active children, and a commit of a parent with an
\* active child does not happen.
C14_NoChildOutlivesParent ==
    [](NoChildOutlivesParent) /\ [][ParentEndsAfterChildren]_vars

\* A parent and its child are aborted, and the last call, a commit of a parent
\* with an active child, has been refused.
C14_Witness ==
    /\ \E p \in 1..Len(tm.txs) :
          /\ tm.txs[p].status = "ABORTED"
          /\ \E c \in get_children(tm, p) : tm.txs[c].status = "ABORTED"
    /\ obs.raised = "cannot commit transaction with active nested transaction"
    /\ \E p \in 1..Len(tm.txs) :
          /\ tm.txs[p].status = "ACTIVE"
          /\ \E c \in get_children(tm, p) : tm.txs[c].status = "ACTIVE"

\* the status of a transaction is ACTIVE exactly while its handle is valid
StatusFollowsHandle ==
    \A c \in 1..Len(tm.txs) : (tm.txs[c].status = "ACTIVE") <=> tm.txs[c].valid

----------------------------------------------------------------------------
(* Session.request (session.py): a statement runs in an inner transaction  *)
(* and an inner tmp transaction, nested in the parent transactions of the  *)
(* session when autocommit is off.  The database is one table, the set of  *)
(* its primary keys.                                                       *)

\* Keys of the table, and requests of one session
MaxDbKey == 2
MaxRequests == 3

\* the keys of a table in the order a scan returns them
RECURSIVE KeysInOrder(_)
KeysInOrder(keys) ==
    IF keys = {} THEN << >>
    ELSE LET k == CHOOSE x \in keys : \A y \in keys : x <= y
         IN  <<k>> \o KeysInOrder(keys \ {k})

\* The statements of the model: INSERT of one or two rows, DELETE of one key,
\* SELECT with an expression that divides by zero on the row with key bad
\* (no such row for bad = 0), COMMIT, ROLLBACK and SET AUTOCOMMIT.
Statements ==
    [kind : {"insert"}, keys : {ks \in SeqsUpTo(1..MaxDbKey, 2) : ks # << >>}]
    \cup [kind : {"delete"}, key : 1..MaxDbKey]
    \cup [kind : {"select"}, bad : 0..MaxDbKey]
    \cup [kind : {"commit", "rollback", "set autocommit on", "set autocommit off"}]

\* InsertPop.execute over a B+tree table: rows are put one by one until a key is already there
RECURSIVE InsertPop_execute(_, _)
InsertPop_execute(data, keys) ==
    IF keys = << >> THEN [data |-> data, raised |-> NoError]
    ELSE IF Head(keys) \in data
    THEN [data |-> data, raised |-> "primary key constraint violation"]
    ELSE InsertPop_execute(data \cup {Head(keys)}, Tail(keys))

\* "for row in pop.execute(): print(row)" with a projection that raises on the row
\* with key bad: the rows before it have been printed
print_rows(data, bad) ==
    LET rows == KeysInOrder(data)
        Before(k) == bad \notin data \/ k < bad
    IN  [emitted |-> SelectSeq(rows, Before),
         raised |-> IF bad \in data THEN "division by zero" ELSE NoError]

\* The try block of request() up to the commits: what the statement does to the
\* view of tx, the rows it prints, what it sets parent_to_do and autocommit to,
\* and the exception it raises
run_statement(s, stmt, data) ==
    LET quiet == [data |-> data, emitted |-> << >>, parent_to_do |-> 0,
                  autocommit |-> s.autocommit, raised |-> NoError]
    IN  IF stmt.kind = "set autocommit on"
        THEN IF ~s.autocommit /\ s.parent_has_done_work /\ s.parent_tx # NoTx
             THEN [quiet EXCEPT !.raised = "commit or abort ongoing transaction"]
             ELSE [quiet EXCEPT !.autocommit = TRUE,
                                !.parent_to_do = IF ~s.autocommit THEN 1 ELSE 0]
        ELSE IF stmt.kind = "set autocommit off"
        THEN [quiet EXCEPT !.autocommit = FALSE]
        ELSE IF stmt.kind = "commit"
        THEN IF s.parent_tx = NoTx THEN [quiet EXCEPT !.raised = "no transaction to COMMIT"]
             ELSE [quiet EXCEPT !.parent_to_do = 1]
        ELSE IF stmt.kind = "rollback"
        THEN IF s.parent_tx = NoTx THEN [quiet EXCEPT !.raised = "no transaction to ROLLBACK"]
             ELSE [quiet EXCEPT !.parent_to_do = -1]
        ELSE IF stmt.kind = "insert"
        THEN LET r == InsertPop_execute(data, stmt.keys)
             IN  [quiet EXCEPT !.data = r.data, !.raised = r.raised]
        ELSE IF stmt.kind = "delete"
        THEN [quiet EXCEPT !.data = data \ {stmt.key}]
        ELSE LET r == print_rows(data, stmt.bad)
             IN  [quiet EXCEPT !.emitted = r.emitted, !.raised = r.raised]

\* the head of request(): the parent transactions are begun if autocommit is off
\* and there is none, then the two inner transactions
begin_all(t, s) ==
    LET need == ~s.autocommit /\ s.parent_tx = NoTx
        b1 == IF need THEN begin_transaction(t, NoTx, FALSE, FALSE)
              ELSE [tm |-> t, tx |-> s.parent_tx, raised |-> NoError]
        b2 == IF need THEN begin_transaction(b1.tm, NoTx, FALSE, TRUE)
              ELSE [tm |-> t, tx |-> s.parent_tmp_tx, raised |-> NoError]
        b3 == begin_transaction(b2.tm, b1.tx, FALSE, FALSE)
        b4 == begin_transaction(b3.tm, b2.tx, FALSE, TRUE)
    IN  [tm |-> b4.tm, parent_tx |-> b1.tx, parent_tmp_tx |-> b2.tx,
         tx |-> b3.tx, tmp_tx |-> b4.tx, began |-> need,
         raised |-> {b1.raised, b2.raised, b3.raised, b4.raised} # {NoError},
         waits |-> \/ need /\ lmdb_begin_waits(t, NoTx, TRUE, FALSE)
                   \/ need /\ lmdb_begin_waits(b1.tm, NoTx, TRUE, TRUE)
                   \/ lmdb_begin_waits(b2.tm, b1.tx, TRUE, FALSE)
                   \/ lmdb_begin_waits(b3.tm, b2.tx, TRUE, TRUE)]

\* the except block that aborts tx only
end_statement_failed_tmp_kept(t, tx, tmp_tx) == abort(t, tx).tm

\* the except block of request(): tmp_tx.abort(); tx.abort()
end_statement_failed(t, tx, tmp_tx) == abort(abort(t, tmp_tx).tm, tx).tm

\* The end of the try block that commits tx only
end_statement_tmp_left(t, tx, tmp_tx) == commit(t, tx).tm

\* the end of the try block: tmp_tx.commit(); tx.commit()
end_statement(t, tx, tmp_tx) == commit(commit(t, tmp_tx).tm, tx).tm

\* a tail that commits the parent transactions whenever parent_to_do is set
end_parent_commits(t, s, parent_to_do) ==
    IF parent_to_do # 0 THEN commit(commit(t, s.parent_tmp_tx).tm, s.parent_tx).tm
    ELSE t

\* the tail of request(): what parent_to_do asks of the parent transactions
end_parent(t, s, parent_to_do) ==
    IF parent_to_do = 1 THEN commit(commit(t, s.parent_tmp_tx).tm, s.parent_tx).tm
    ELSE IF parent_to_do = -1 THEN abort(abort(t, s.parent_tmp_tx).tm, s.parent_tx).tm
    ELSE t

notSession == <<tmp, esb, hj, mj, ag, pl, mat, sg, gens, bw, stg, ncols>>

InitSession ==
    /\ tmp = NoFiles
    /\ esb = Idle
    /\ hj = Idle
    /\ mj = Idle
    /\ ag = Idle
    /\ pl = Idle
    /\ mat = Idle
    /\ stg = Idle
    /\ bw = Idle
    /\ gens = Idle
    /\ sg = Idle
    /\ ncols = NumColumns
    /\ \E table \in SUBSET (1..MaxDbKey) : tm = [txs |-> << >>, env |-> table, tmp_env |-> {}]
    /\ sess = [autocommit |-> TRUE, parent_tx |-> NoTx, parent_tmp_tx |-> NoTx,
               parent_has_done_work |-> FALSE]
    /\ obs = [requests |-> 0, kind |-> "none", error |-> FALSE, emitted |-> << >>,
              tx_status |-> "none", tmp_tx_status |-> "none",
              view_before |-> {}, env_at_begin |-> {}]

\* session.request(parse_tree).  obs keeps the response (error, the rows
\* printed), the status of the two inner transactions on return, the view the
\* statement started from and the database as it was when the parent
\* transaction began.  Transactions nothing refers to any more are dropped.
SessionRequest ==
    /\ obs.requests < MaxRequests
    /\ \E stmt \in Statements :
          LET b == begin_all(tm, sess)
              s1 == [sess EXCEPT !.parent_tx = b.parent_tx, !.parent_tmp_tx = b.parent_tmp_tx,
                                 !.parent_has_done_work = IF b.began THEN FALSE ELSE @]
              view == b.tm.txs[b.tx].data
              r == run_statement(s1, stmt, view)
              failed == r.raised # NoError
              t1 == [b.tm EXCEPT !.txs[b.tx].data = r.data]
              t2 == IF failed THEN end_statement_failed(t1, b.tx, b.tmp_tx)
                    ELSE end_statement(t1, b.tx, b.tmp_tx)
              t3 == end_parent(t2, s1, r.parent_to_do)
              s2 == [s1 EXCEPT
                       !.autocommit = r.autocommit,
                       !.parent_has_done_work =
                           IF r.parent_to_do # 0 THEN FALSE
                           ELSE IF ~failed /\ s1.parent_tx # NoTx THEN TRUE ELSE @,
                       !.parent_tx = IF r.parent_to_do # 0 THEN NoTx ELSE @,
                       !.parent_tmp_tx = IF r.parent_to_do # 0 THEN NoTx ELSE @]
          IN  /\ ~b.raised /\ ~b.waits
              /\ tm' = IF s2.parent_tx = NoTx THEN [t3 EXCEPT !.txs = << >>] ELSE t3
              /\ sess' = s2
              /\ obs' = [requests |-> obs.requests + 1, kind |-> stmt.kind,
                         error |-> failed, emitted |-> r.emitted,
                         tx_status |-> t3.txs[b.tx].status,
                         tmp_tx_status |-> t3.txs[b.tmp_tx].status,
                         view_before |-> view,
                         env_at_begin |-> IF b.began THEN tm.env ELSE obs.env_at_begin]
    /\ UNCHANGED notSession

NextSession == SessionRequest

SpecSession == InitSession /\ [][NextSession]_vars

\* request() always gets its transactions: no begin_transaction raises or waits
RequestCanBegin ==
    LET b == begin_all(tm, sess) IN ~b.raised /\ ~b.waits

\* C15: when the statement of a request raises, request() has aborted the inner
\* transaction and the inner tmp transaction, the parent transaction of the
\* session (if there is one) is still ACTIVE and sees exactly what it saw before
\* the statement, and the database itself is unchanged.
C15_ErrorAbortsInnerOnly ==
    obs.error =>
        /\ obs.tx_status = "ABORTED"
        /\ obs.tmp_tx_status = "ABORTED"
        /\ sess.parent_tx # NoTx =>
              /\ tm.txs[sess.parent_tx].status = "ACTIVE"
              /\ tm.txs[sess.parent_tmp_tx].status = "ACTIVE"
              /\ tm.txs[sess.parent_tx].data = obs.view_before
        /\ sess.parent_tx = NoTx => tm.env = obs.view_before

\* A two-row INSERT failed on its second row inside a parent transaction whose
\* earlier statements changed what it sees.
C15_Witness ==
    /\ obs.error /\ obs.kind = "insert"
    /\ sess.parent_tx # NoTx
    /\ tm.txs[sess.parent_tx].data # tm.env
    /\ Cardinality(tm.txs[sess.parent_tx].data) = MaxDbKey - 1

\* C16: when request() reports an error for a statement, no row of the
\* statement has been printed.
C16_NoRowsOnError ==
    obs.error => obs.emitted = << >>

\* When the statement raises, the rows printed are those a scan returns before
\* the row the expression fails on.
RowsBeforeTheError ==
    (obs.error /\ obs.kind = "select")
        => \E k \in 0..Len(KeysInOrder(obs.view_before)) :
               obs.emitted = SubSeq(KeysInOrder(obs.view_before), 1, k)

\* C17: with autocommit off, a ROLLBACK that succeeds leaves the database as it
\* was when the parent transaction began, whatever the statements committed in
\* between did, and leaves no parent transaction.
C17_RollbackRestores ==
    (obs.kind = "rollback" /\ ~obs.error)
        => /\ tm.env = obs.env_at_begin
           /\ sess.parent_tx = NoTx /\ sess.parent_tmp_tx = NoTx

\* A ROLLBACK after statements that committed changes: the view the ROLLBACK
\* statement started from differs from the database it restores.
C17_Witness ==
    /\ obs.kind = "rollback" /\ ~obs.error
    /\ obs.requests = MaxRequests
    /\ obs.view_before # tm.env
    /\ tm.env # {}

----------------------------------------------------------------------------
(* Closing an iterator before its end (profile.py, profile_generator).     *)
(* Every execute() is a generator wrapped by profile_generator.  close() on *)
(* a generator suspended at a yield raises GeneratorExit at that yield: of  *)
(* the statements after it, only those of a finally or with block run.  A   *)
(* generator that nothing refers to any more is closed in the same way.     *)

\* ExtSortBuffer.iter_and_clear up to its last pass: the buffer (sorted in place)
\* or the runs that are left, and the rows each of them still has to give.
ExtSortBuffer_iter_start(b, files) ==
    IF b.num_blocks_flushed = 0
    THEN [b |-> [b EXCEPT !.buffer = FlushedRows(b)], files |-> files,
          runs |-> << >>, rs |-> <<FlushedRows(b)>>]
    ELSE LET s == IF Len(b.buffer) > 0 THEN ExtSortBuffer_flush(b, files)
                  ELSE [b |-> b, files |-> files]
             p == MergePasses(s.b, s.files, s.b.runs, 1)
         IN  [b |-> [s.b EXCEPT !.runs = p.runs], files |-> p.files,
              runs |-> p.runs,
              rs |-> [j \in 1..Len(p.runs) |-> iter_scan(p.files, p.runs[j])]]

\* ExtSortBuffer.iter_and_clear after its last yield: the runs are deleted and
\* the buffer is ready for new rows.
ExtSortBuffer_iter_finish(b, files) ==
    [b |-> [b EXCEPT !.buffer = << >>, !.runs = << >>],
     files |-> DeleteRuns(files, b.runs)]

\* q.dequeue() in _iter_merge: the run whose first row is the smallest
iter_merge_dequeue(b, rs) ==
    LET live == {i \in 1..Len(rs) : rs[i] # << >>}
    IN  CHOOSE x \in live : \A y \in live : HeadBefore(b.compare, rs, x, y)

\* The probing/joining loop of HashEqJoinPop.execute from pair p on, up to the
\* next yield: the build partition is read and deleted; a pair that yields no
\* row loses its probe partition too and the loop goes on with the next pair.
RECURSIVE probe_from(_, _, _)
probe_from(h, files, p) ==
    LET builds == h.partitions[h.build_side + 1]
        probes == h.partitions[(1 - h.build_side) + 1]
        pairs == Zipped(builds, probes)
    IN  IF p > Len(pairs) THEN [files |-> files, pair |-> p, rows |-> << >>]
        ELSE LET rows == ProbePair(files, pairs[p][1], pairs[p][2], h.build_side)
                 built == DeletePartitions(files, <<pairs[p][1]>>)
             IN  IF rows = << >>
                 THEN probe_from(h, DeletePartitions(built, <<pairs[p][2]>>), p + 1)
                 ELSE [files |-> built, pair |-> p, rows |-> rows]

\* Rows of the sort's input when its consumer may stop early
MaxCloseRows == 4

notClose == <<mj, ag, pl, mat, sg, tm, sess, bw, stg, ncols>>

InitClose ==
    /\ tmp = NoFiles
    /\ mj = Idle
    /\ ag = Idle
    /\ pl = Idle
    /\ mat = Idle
    /\ stg = Idle
    /\ bw = Idle
    /\ sg = Idle
    /\ tm = Idle
    /\ sess = Idle
    /\ ncols = NumColumns
    /\ \/ /\ \E cmp \in Comparators, mf \in {2, SortMemoryBlocks} :
                esb = ExtSortBuffer(cmp, SortMemoryBlocks, mf, FALSE)
          /\ hj = Idle
          /\ \E input \in SeqsUpTo(SortRows, MaxCloseRows) :
                gens = [op |-> "sort", wrap |-> "created", it |-> "none", input |-> input,
                        runs |-> << >>, rs |-> << >>, from |-> 0, cursors |-> {}]
       \/ /\ esb = Idle
          /\ \E left \in SeqsUpTo(JoinRows, MaxJoinRows), right \in SeqsUpTo(JoinRows, MaxJoinRows),
                hashOf \in [JoinVals -> HashValues] :
                hj = [pc |-> "partition", left |-> left, right |-> right, hashOf |-> hashOf,
                      num_memory_blocks |-> HashMemoryBlocks,
                      depth |-> 0, num_partitions |-> 1, build_side |-> 0,
                      passes |-> 0, max_partition_sizes |-> <<0, 0>>,
                      partitions |-> << <<PopPartition(left)>>, <<PopPartition(right)>> >>]
          /\ gens = [op |-> "hash", wrap |-> "created", it |-> "none", input |-> << >>,
                     runs |-> << >>, rs |-> << >>, from |-> 0, cursors |-> {}]
    /\ obs = [out |-> << >>]

\* MergeSortPop.execute from its start to the last pass of iter_and_clear: the
\* input is added to the buffer, then iter_and_clear is started.
MergeSortPop_start(b, files, input) ==
    LET a == AddAllToSortBuffer(b, files, input)
    IN  ExtSortBuffer_iter_start(a.b, a.files)

\* MergeSortPop.execute from the last pass at position s to its next yield, or
\* to its end when no run has a row left.
MergeSortPop_next(g, s) ==
    IF \A i \in 1..Len(s.rs) : s.rs[i] = << >>
    THEN LET f == ExtSortBuffer_iter_finish(s.b, s.files)
         IN  [b |-> f.b, files |-> f.files, row |-> << >>,
              gens |-> [g EXCEPT !.wrap = "exhausted", !.it = "exhausted",
                                 !.runs = << >>, !.rs = << >>, !.from = 0, !.cursors = {}]]
    ELSE LET i == iter_merge_dequeue(s.b, s.rs)
         IN  [b |-> s.b, files |-> s.files, row |-> <<Head(s.rs[i])>>,
              gens |-> [g EXCEPT
                         !.wrap = "suspended", !.it = "suspended",
                         !.runs = s.runs, !.rs = [s.rs EXCEPT ![i] = Tail(@)], !.from = i,
                         \* the scan of a run ends, and its cursor closes, when
                         \* _iter_merge asks it for a row and there is none
                         !.cursors = {s.runs[j] : j \in {k \in 1..Len(s.runs) :
                                                          Len(s.rs[k]) > 0}}]]

\* next(root), the root being a MergeSortPop: the first call constructs the wrapped
\* generator, adds the input to the buffer and starts iter_and_clear; every call
\* runs to the next yield of the last pass, or to the end of iter_and_clear.
CloseSortNext ==
    /\ gens.op = "sort"
    /\ gens.wrap \in {"created", "suspended"}
    /\ \E r \in {MergeSortPop_next(gens,
                    IF gens.wrap = "created" THEN MergeSortPop_start(esb, tmp, gens.input)
                    ELSE [b |-> esb, files |-> tmp, runs |-> gens.runs, rs |-> gens.rs])} :
          /\ esb' = r.b
          /\ tmp' = r.files
          /\ gens' = r.gens
          /\ obs' = [obs EXCEPT !.out = @ \o r.row]
    /\ UNCHANGED <<hj, notClose>>

\* HashEqJoinPop.execute from the end of its partitioning loop, or resumed at
\* its yield, up to the next yield: the first pair that gives a row; the next row
\* of the pair; or the end of the pair (its probe partition is deleted) and the
\* pairs after it.
HashEqJoinPop_resume(g, h, files) ==
    IF g.wrap = "running"
    THEN LET q == probe_from(h, files, 1)
         IN  [hj |-> h, files |-> q.files, pair |-> q.pair, rows |-> q.rows]
    ELSE IF g.rs[1] # << >>
    THEN [hj |-> h, files |-> files, pair |-> g.from, rows |-> g.rs[1]]
    ELSE LET probes == h.partitions[(1 - h.build_side) + 1]
             q == probe_from(h, DeletePartitions(files, <<probes[g.from]>>), g.from + 1)
         IN  [hj |-> h, files |-> q.files, pair |-> q.pair, rows |-> q.rows]

\* The row HashEqJoinPop.execute yields at position s, or its end
HashEqJoinPop_next(g, s) ==
    IF s.rows = << >>
    THEN [hj |-> [s.hj EXCEPT !.pc = "done"], files |-> s.files, row |-> << >>,
          gens |-> [g EXCEPT !.wrap = "exhausted", !.it = "exhausted",
                             !.runs = << >>, !.rs = << >>, !.from = 0, !.cursors = {}]]
    ELSE LET probe == s.hj.partitions[(1 - s.hj.build_side) + 1][s.pair]
         IN  [hj |-> s.hj, files |-> s.files, row |-> <<Head(s.rows)>>,
              gens |-> [g EXCEPT
                         !.wrap = "suspended", !.it = "suspended",
                         !.runs = <<probe.name>>, !.rs = <<Tail(s.rows)>>, !.from = s.pair,
                         \* the scan of the probe partition is suspended in its loop
                         !.cursors = {probe.name}]]

\* The first next(root), the root being a HashEqJoinPop: the wrapped generator is
\* constructed and runs its partitioning loop, one pass at a time.
CloseHashPartition ==
    /\ gens.op = "hash"
    /\ gens.wrap \in {"created", "running"}
    /\ hj.pc = "partition"
    /\ hj.depth < DEFAULT_HASH_MAX_DEPTH
    /\ \E pass \in {partition_pass(hj, tmp)} :
          /\ hj' = pass.hj
          /\ tmp' = pass.files
    /\ gens' = [gens EXCEPT !.wrap = "running", !.it = "running"]
    /\ UNCHANGED <<esb, obs, notClose>>

\* next(root), the root being a HashEqJoinPop, once the inputs are partitioned:
\* the generator runs to the next yield of the probing/joining pass, or to its end.
CloseHashNext ==
    /\ gens.op = "hash"
    /\ \/ gens.wrap = "running" /\ hj.pc = "probe"
       \/ gens.wrap = "suspended"
    /\ \E r \in {HashEqJoinPop_next(gens, HashEqJoinPop_resume(gens, hj, tmp))} :
          /\ hj' = r.hj
          /\ tmp' = r.files
          /\ gens' = r.gens
          /\ obs' = [obs EXCEPT !.out = @ \o r.row]
    /\ UNCHANGED <<esb, notClose>>

\* root.close(), between two calls of next(root) and before the end.  A generator
\* that never ran just ends.  One that is suspended gets GeneratorExit at
\* "yield value" of the profile_generator wrapper, whose finally closes the
\* wrapped generator; that one gets it at its own yield, and the generators it
\* alone refers to (iter_and_clear, _iter_merge, the scans of the runs or of the
\* probe partition) are closed as their referrer goes: a scan leaves its
\* "with cursor" block, which closes the cursor.  No statement that follows a
\* yield is in a finally block, so none of them runs.
CloseRoot ==
    /\ gens.wrap \in {"created", "suspended"}
    /\ gens' = [gens EXCEPT !.wrap = "closed",
                            !.it = IF gens.wrap = "suspended" THEN "closed" ELSE @,
                            !.cursors = {}]
    /\ UNCHANGED <<tmp, esb, hj, obs, notClose>>

NextClose == CloseSortNext \/ CloseHashPartition \/ CloseHashNext \/ CloseRoot

SpecClose == InitClose /\ [][NextClose]_vars

\* C18: when the consumer closes the root before it is exhausted, every
\* descendant generator is closed with it, no cursor stays open, and no tmp file
\* of the operator (sort run, hash partition) is left.
C18_EarlyCloseLeaksNothing ==
    gens.wrap = "closed"
        => /\ gens.it \in {"none", "closed"}
           /\ gens.cursors = {}
           /\ DOMAIN tmp = {}

\* What holds of an early close: the generators are closed and the cursors
\* released, and the tmp files left are the runs of the last pass, or the probe
\* partition being read and the partitions of the pairs after it.
EarlyCloseLeavesPendingFiles ==
    gens.wrap = "closed"
        => /\ gens.it \in {"none", "closed"}
           /\ gens.cursors = {}
           /\ DOMAIN tmp =
                 IF gens.op = "sort" THEN Range(gens.runs)
                 ELSE IF gens.it = "none" THEN {}
                 ELSE {hj.partitions[sp[1]][sp[2]].name :
                          sp \in {x \in (1..2) \X (1..Len(hj.partitions[1])) :
                                    \/ x[2] > gens.from
                                    \/ x[2] = gens.from /\ x[1] = (1 - hj.build_side) + 1}}

\* An iteration that runs to its end leaves no tmp file and gives the rows that
\* the operator gives when it is run in one go.
ExhaustedLeavesNothing ==
    gens.wrap = "exhausted"
        => /\ DOMAIN tmp = {}
           /\ gens.op = "sort" =>
                 LET a == AddAllToSortBuffer(
                              ExtSortBuffer(esb.compare, esb.num_memory_blocks,
                                            esb.num_memory_blocks_final, FALSE),
                              NoFiles, gens.input)
                     s == ExtSortBuffer_iter_and_clear(a.b, a.files)
                 IN  obs.out = s.out /\ esb = s.b
           /\ gens.op = "hash" =>
                 SameBag(obs.out, BNLJoinPop_execute(hj.left, hj.right, BnljMemoryBlocks))

----------------------------------------------------------------------------
(* The merge passes of ExtSortBuffer.iter_and_clear, one merge at a time.   *)
(* esb holds the buffer and, beside its fields, the locals of the running   *)
(* iter_and_clear: level, new_runs and the loop index i.                    *)

\* Largest M and M_final of the buffers whose passes are followed
MaxPassBlocks == 4
\* Rows added before iter_and_clear
MaxPassRows == 6
\* Columns of the rows: one such row fits a buffer of M blocks, two do not, so
\* every row added after the first spills a run of one row.
PassColumns == 1200

notPass == <<hj, mj, ag, pl, mat, sg, tm, sess, gens, bw, stg>>

\* ceil(float(len(self.runs)) / (self.num_memory_blocks - 1))
merges_in_pass(b) ==
    (Len(b.runs) + (b.num_memory_blocks - 1) - 1) \div (b.num_memory_blocks - 1)

\* A pass loop that takes one run more than M - 1 in every merge.
runs_subset_one_more(b, i) ==
    SubSeq(b.runs, i * (b.num_memory_blocks - 1) + 1,
           MinOf((i + 1) * (b.num_memory_blocks - 1) + 1, Len(b.runs)))

\* self.runs[i * (self.num_memory_blocks-1) : (i+1) * (self.num_memory_blocks-1)]
runs_subset(b, i) ==
    SubSeq(b.runs, i * (b.num_memory_blocks - 1) + 1,
           MinOf((i + 1) * (b.num_memory_blocks - 1), Len(b.runs)))

InitPass ==
    /\ hj = Idle
    /\ mj = Idle
    /\ ag = Idle
    /\ pl = Idle
    /\ mat = Idle
    /\ stg = Idle
    /\ bw = Idle
    /\ gens = Idle
    /\ sess = Idle
    /\ tm = Idle
    /\ sg = Idle
    /\ ncols = PassColumns
    /\ tmp = NoFiles
    /\ \E m \in 3..MaxPassBlocks, mf \in 2..MaxPassBlocks :
          esb = [pc |-> "start", level |-> 0, new_runs |-> << >>, i |-> 0]
                    @@ ExtSortBuffer(<<1>>, m, mf, FALSE)
    /\ obs = [added |-> << >>, out |-> << >>, merged |-> << >>, freed |-> {}, final |-> 0]

\* buffer.add(row), before iter_and_clear is called
PassAdd ==
    /\ esb.pc = "start"
    /\ Len(obs.added) < MaxPassRows
    /\ \E row \in SortRows :
          \E s \in {ExtSortBuffer_add(esb, tmp, row)} :
             /\ esb' = s.b
             /\ tmp' = s.files
             /\ obs' = [obs EXCEPT !.added = Append(@, row)]
    /\ UNCHANGED <<ncols, notPass>>

\* iter_and_clear up to its while loop: the rows are sorted and yielded from
\* memory when nothing was flushed; else what is in memory is flushed as a run.
PassStart ==
    /\ esb.pc = "start"
    /\ IF esb.num_blocks_flushed = 0
       THEN /\ esb' = [esb EXCEPT !.buffer = << >>, !.pc = "done"]
            /\ obs' = [obs EXCEPT !.out = FlushedRows(esb)]
            /\ tmp' = tmp
       ELSE \E s \in {IF Len(esb.buffer) > 0 THEN ExtSortBuffer_flush(esb, tmp)
                      ELSE [b |-> esb, files |-> tmp]} :
               /\ esb' = [s.b EXCEPT !.level = 1, !.pc = "while"]
               /\ tmp' = s.files
               /\ obs' = obs
    /\ UNCHANGED <<ncols, notPass>>

\* while len(self.runs) > self.num_memory_blocks_final: new_runs = list()
PassWhile ==
    /\ esb.pc = "while"
    /\ esb' = IF Len(esb.runs) > esb.num_memory_blocks_final
              THEN [esb EXCEPT !.new_runs = << >>, !.i = 0, !.pc = "merge"]
              ELSE [esb EXCEPT !.pc = "final"]
    /\ UNCHANGED <<tmp, obs, ncols, notPass>>

\* One iteration of "for i in range(ceil(...))": the runs of the subset are
\* merged into a new run through a one-block writer, then deleted.
PassMerge ==
    /\ esb.pc = "merge"
    /\ esb.i < merges_in_pass(esb)
    /\ \E subset \in {runs_subset(esb, esb.i)}, new_run \in {SortRunName(esb.level, Len(esb.new_runs))} :
          \E f1 \in {TmpFileCreate(tmp, new_run)} :
          \E s1 \in {BufferedWriter_write_all(
                         BufferedWriter(new_run, 1), f1,
                         ExtSortBuffer_iter_merge(
                             esb, [j \in 1..Len(subset) |-> iter_scan(f1, subset[j])], << >>))} :
             /\ tmp' = DeleteRuns(BufferedWriter_flush(s1.w, s1.files).files, subset)
             /\ esb' = [esb EXCEPT !.new_runs = Append(@, new_run), !.i = @ + 1]
             /\ obs' = [obs EXCEPT !.merged = Append(@, Len(subset)),
                                   !.freed = @ \cup Range(subset)]
    /\ UNCHANGED <<ncols, notPass>>

\* self.runs = new_runs; level += 1
PassEnd ==
    /\ esb.pc = "merge"
    /\ esb.i = merges_in_pass(esb)
    /\ esb' = [esb EXCEPT !.runs = esb.new_runs, !.level = @ + 1, !.pc = "while"]
    /\ UNCHANGED <<tmp, obs, ncols, notPass>>

\* The last pass, iterated to its end: the runs are merged and streamed, then deleted.
PassFinal ==
    /\ esb.pc = "final"
    /\ obs' = [obs EXCEPT
                 !.out = ExtSortBuffer_iter_merge(
                             esb, [j \in 1..Len(esb.runs) |-> iter_scan(tmp, esb.runs[j])], << >>),
                 !.final = Len(esb.runs),
                 !.freed = @ \cup Range(esb.runs)]
    /\ tmp' = DeleteRuns(tmp, esb.runs)
    /\ esb' = [esb EXCEPT !.runs = << >>, !.pc = "done"]
    /\ UNCHANGED <<ncols, notPass>>

NextPass == PassAdd \/ PassStart \/ PassWhile \/ PassMerge \/ PassEnd \/ PassFinal

SpecPass == InitPass /\ [][NextPass]_vars

\* A measure of what iter_and_clear has left to do: the rows still to be added
\* before the call; in the pass loop, the square of the number of runs less the
\* merges made in the pass; 1 before the last pass, 0 at the end.
PassVariant ==
    CASE esb.pc = "start" -> (MaxPassRows + 1) * (MaxPassRows + 1) + 3
                                 + (MaxPassRows - Len(obs.added))
      [] esb.pc = "while" -> Len(esb.runs) * Len(esb.runs) + 2
      [] esb.pc = "merge" -> Len(esb.runs) * Len(esb.runs) + 1 - esb.i
      [] esb.pc = "final" -> 1
      [] esb.pc = "done" -> 0

\* No step of iter_and_clear waits for anything: until it returns, its next
\* statement can run.
PassCanStep ==
    esb.pc = "merge" => esb.i <= merges_in_pass(esb)

\* What holds at every step of the passes
PassesBounded ==
    /\ \A k \in 1..Len(obs.merged) :
          obs.merged[k] >= 1 /\ obs.merged[k] <= esb.num_memory_blocks - 1
    /\ esb.pc = "final" => Len(esb.runs) <= esb.num_memory_blocks_final
    /\ obs.final <= esb.num_memory_blocks_final
    /\ obs.freed \cap DOMAIN tmp = {}
    /\ esb.pc = "merge" => Len(esb.runs) > esb.num_memory_blocks_final
    /\ PassCanStep
    /\ PassVariant >= 0
    /\ esb.pc = "done" =>
          /\ DOMAIN tmp = {}
          /\ SameBag(obs.out, obs.added) /\ IsSortedBy(esb.compare, obs.out)

\* C21: once runs have spilled, every merge of a pass before the last takes at
\* most M - 1 runs, passes are made while more than M_final runs are left, the
\* last pass merges at most M_final runs, the source runs of every completed
\* merge are gone from the tmp space, and iter_and_clear reaches its end (its
\* next statement can always run and every step lowers a measure that never
\* goes below 0), for every M >= 3, M_final >= 2 and number of initial runs.
C21_PassesBoundedAndTerminate ==
    /\ []PassesBounded
    /\ [][PassVariant' < PassVariant]_vars

\* Six runs merged by a three-block buffer with a two-run last pass: two passes
\* of pairwise merges are made before the last pass.
C21_Witness ==
    /\ esb.pc = "done"
    /\ esb.num_memory_blocks = 3 /\ esb.num_memory_blocks_final = 2
    /\ Len(obs.added) = MaxPassRows
    /\ esb.level >= 3
    /\ obs.final = 2
    /\ Len(obs.merged) >= 4
    /\ Cardinality(Range(obs.out)) >= 2

----------------------------------------------------------------------------
(* Rows larger than the budget of a BufferedReader or of an ExtSortBuffer   *)
(* (executor/util.py).  gens holds the BufferedReader and what its          *)
(* iter_buffer generator has served; esb the sort buffer.                   *)

\* Rows handed to the reader or the buffer
MaxBudgetRows == 3
\* Memory blocks of the reader and of the sort buffer are 1 or this, and 3 or this
MaxBudgetBlocks == 3

\* Numbers of columns of rows that just fit, and just do not fit, n blocks
FitsBlocks(n) == (n * BLOCK_SIZE - 40) \div 8
BudgetColumns == UNION {{FitsBlocks(n), FitsBlocks(n) + 1} : n \in {1, 3, MaxBudgetBlocks}}

\* BufferedReader.__init__
BufferedReader(num_memory_blocks) ==
    [num_memory_blocks |-> num_memory_blocks, max_bytes |-> num_memory_blocks * BLOCK_SIZE]

\* if row_size > self.max_bytes
row_too_big(max_bytes, row) == getsizeof(row) > max_bytes

\* BufferedReader.iter_buffer, iterated until it ends or raises: the buffers
\* served and the exception raised
RECURSIVE BufferedReader_iter_buffer(_, _, _, _, _)
BufferedReader_iter_buffer(r, input, buffer, num_bytes, served) ==
    IF input = << >>
    THEN [served |-> IF Len(buffer) > 0 THEN Append(served, buffer) ELSE served,
          raised |-> NoError]
    ELSE IF row_too_big(r.max_bytes, Head(input))
    THEN [served |-> served, raised |-> "row too big to fix in block(s)"]
    ELSE IF num_bytes + getsizeof(Head(input)) > r.max_bytes
    THEN BufferedReader_iter_buffer(r, Tail(input), <<Head(input)>>, getsizeof(Head(input)),
                                    Append(served, buffer))
    ELSE BufferedReader_iter_buffer(r, Tail(input), Append(buffer, Head(input)),
                                    num_bytes + getsizeof(Head(input)), served)

notBudget == <<hj, mj, ag, pl, mat, sg, tm, sess, bw, stg>>

InitBudget ==
    /\ tmp = NoFiles
    /\ hj = Idle
    /\ mj = Idle
    /\ ag = Idle
    /\ pl = Idle
    /\ mat = Idle
    /\ stg = Idle
    /\ bw = Idle
    /\ sess = Idle
    /\ tm = Idle
    /\ sg = Idle
    /\ ncols \in BudgetColumns
    /\ \E n \in {1, MaxBudgetBlocks} : gens = [pc |-> "created"] @@ BufferedReader(n)
    /\ \E m \in {3, MaxBudgetBlocks}, d \in BOOLEAN : esb = ExtSortBuffer(<<1>>, m, m, d)
    /\ obs = [input |-> << >>, served |-> << >>, raised |-> NoError,
              added |-> << >>, add_raised |-> NoError]

\* for buffer in reader.iter_buffer(input): ... (iterated to its end or its exception)
BudgetRead ==
    /\ gens.pc = "created"
    /\ \E input \in SeqsUpTo(SortRows, MaxBudgetRows) :
          \E it \in {BufferedReader_iter_buffer(gens, input, << >>, 0, << >>)} :
             /\ gens' = [gens EXCEPT !.pc = IF it.raised = NoError THEN "exhausted" ELSE "raised"]
             /\ obs' = [obs EXCEPT !.input = input, !.served = it.served, !.raised = it.raised]
    /\ UNCHANGED <<tmp, esb, ncols, notBudget>>

\* buffer.add(row): no statement of add raises
BudgetAdd ==
    /\ Len(obs.added) < MaxBudgetRows
    /\ \E row \in SortRows :
          \E s \in {ExtSortBuffer_add(esb, tmp, row)} :
             /\ esb' = s.b
             /\ tmp' = s.files
             /\ obs' = [obs EXCEPT !.added = Append(@, row), !.add_raised = NoError]
    /\ UNCHANGED <<gens, ncols, notBudget>>

NextBudget == BudgetRead \/ BudgetAdd

SpecBudget == InitBudget /\ [][NextBudget]_vars

\* The rows of the buffers a reader has served, in order
ServedRows == Flatten(obs.served)

\* The reader's half of the claim: iter_buffer raises at the first row larger
\* than n_blocks * BLOCK_SIZE and serves no buffer with it; without such a row
\* it serves every row, in order, in buffers within the budget.
ReaderRejectsOversizedRow ==
    gens.pc # "created" =>
        IF obs.input # << >> /\ getsizeof(obs.input[1]) > gens.max_bytes
        THEN obs.raised # NoError /\ obs.served = << >>
        ELSE /\ obs.raised = NoError
             /\ ServedRows = obs.input
             /\ \A k \in 1..Len(obs.served) :
                   Len(obs.served[k]) * getsizeof(obs.input[1]) <= gens.max_bytes

\* C22: a reader or a sort buffer that is given a row larger than its budget
\* (n_blocks * BLOCK_SIZE, M * BLOCK_SIZE) fails with an error that carries a
\* message and does not buffer the row.
C22_OversizedRowIsFatal ==
    /\ ReaderRejectsOversizedRow
    /\ (obs.added # << >> /\ getsizeof(obs.added[1]) > esb.max_bytes) =>
          /\ obs.add_raised # NoError
          /\ esb.buffer = << >>

\* What add does with a row larger than M * BLOCK_SIZE: it flushes what is in
\* memory (an empty run when there is nothing) and keeps the row in the buffer.
OversizedRowIsBuffered ==
    (obs.added # << >> /\ getsizeof(obs.added[1]) > esb.max_bytes) =>
        /\ obs.add_raised = NoError
        /\ Len(esb.buffer) = 1
        /\ esb.buffer[1] \in Range(obs.added)
        /\ esb.num_bytes > esb.max_bytes
        /\ Len(esb.runs) >= 1
        /\ iter_scan(tmp, esb.runs[1]) = << >>

----------------------------------------------------------------------------
(* A BufferedWriter written to row by row (executor/util.py).               *)

\* Rows written to one writer, and the largest budget of a writer in blocks
MaxWrites == 4
MaxWriterBlocks == 2

\* Numbers of columns of the rows: of 840, 2000, 3240 and 4024 bytes
WriterColumns == {100, 245, 400, 498}

WriterFileName == <<"writer", 0, 0>>

notWriter == <<esb, hj, mj, ag, pl, mat, sg, tm, sess, gens, stg, ncols>>

InitWriter ==
    /\ esb = Idle
    /\ hj = Idle
    /\ mj = Idle
    /\ ag = Idle
    /\ pl = Idle
    /\ mat = Idle
    /\ stg = Idle
    /\ sg = Idle
    /\ tm = Idle
    /\ sess = Idle
    /\ gens = Idle
    /\ ncols \in WriterColumns
    /\ tmp = TmpFileCreate(NoFiles, WriterFileName)
    /\ \E n \in 1..MaxWriterBlocks : bw = BufferedWriter(WriterFileName, n)
    /\ obs = [written |-> << >>, flush_calls |-> 0]

\* writer.write(row)
WriterWrite ==
    /\ Len(obs.written) < MaxWrites
    /\ \E row \in SortRows :
          \E s \in {BufferedWriter_write(bw, tmp, row)} :
             /\ bw' = s.w
             /\ tmp' = s.files
             /\ obs' = [obs EXCEPT !.written = Append(@, row)]
    /\ UNCHANGED notWriter

\* writer.flush(), called by the owner of the writer
WriterFlush ==
    /\ obs.flush_calls = 0
    /\ \E s \in {BufferedWriter_flush(bw, tmp)} :
          /\ bw' = s.w
          /\ tmp' = s.files
    /\ obs' = [obs EXCEPT !.flush_calls = @ + 1]
    /\ UNCHANGED notWriter

NextWriter == WriterWrite \/ WriterFlush

SpecWriter == InitWriter /\ [][NextWriter]_vars

\* The bytes of the rows written so far
WrittenBytes == Len(obs.written) * getsizeof(<< >>)

\* While nothing is flushed the buffer is what was written, in write order; and
\* at any time the file followed by the buffer is.
WriterKeepsRowsInOrder ==
    /\ bw.num_blocks_flushed = 0 => bw.buffer = obs.written
    /\ iter_scan(tmp, WriterFileName) \o bw.buffer = obs.written

\* C23: write() flushes only when the byte budget would be exceeded: a writer
\* whose written rows never exceed its budget keeps num_blocks_flushed = 0, and
\* whenever num_blocks_flushed = 0 the buffer holds every row written so far in
\* write order.
C23_NoFlushWithinBudget ==
    /\ (obs.flush_calls = 0 /\ WrittenBytes <= bw.max_bytes) => bw.num_blocks_flushed = 0
    /\ WriterKeepsRowsInOrder

\* What write() does: it flushes as soon as one more row of the size of the row
\* just written would not fit, whether or not that row ever comes.
WriterFlushesAheadOfNextRow ==
    obs.flush_calls = 0 =>
        (bw.num_blocks_flushed = 0 <=> WrittenBytes + getsizeof(<< >>) <= bw.max_bytes)

----------------------------------------------------------------------------
(* INSERT and DELETE on a base table with secondary indices                 *)
(* (executor/command.py over storage/lmdb.py and storage/serialize.py).     *)

\* Rows a table holds at most, and the largest row id a heap file gives out
MaxStoredRows == 2
MaxRowId == 3

\* The least integer that pack_int takes
IntMin == -2147483647 - 1

\* struct.pack('>I', i + 2147483648): the top bit, which is set for i >= 0,
\* and the 31 bits below it
pack_int(i) == IF i >= 0 THEN <<1, i>> ELSE <<0, i - IntMin>>

unpack_int(bytes) == IF bytes[1] = 1 THEN bytes[2] ELSE bytes[2] + IntMin

\* The order of keys in a file: the order of their bytes
KeyLess(x, y) == x[1] < y[1] \/ (x[1] = y[1] /\ x[2] < y[2])

\* pickle.dumps(row) and pickle.loads(bytes)
pack_row(row) == <<"pickle", row>>

unpack_row(bytes) == bytes[2]

\* The entries of a file as a cursor goes through them: in the order of their keys
RECURSIVE InKeyOrder(_)
InKeyOrder(file) ==
    IF file = {} THEN << >>
    ELSE LET first == CHOOSE e \in file : \A o \in file : e = o \/ KeyLess(e[1], o[1])
         IN <<first>> \o InKeyOrder(file \ {first})

\* cursor.last() and cursor.key()
LastKey(file) == CHOOSE k \in {e[1] : e \in file} : \A e \in file : e[1] = k \/ KeyLess(e[1], k)

HeapFile_put(file, row) ==
    LET row_id == IF file = {} THEN 0 ELSE unpack_int(LastKey(file)) + 1
    IN [file |-> {e \in file : e[1] # pack_int(row_id)} \cup {<<pack_int(row_id), pack_row(row)>>},
        row_id |-> row_id]

HeapFile_delete(file, row_id) == {e \in file : e[1] # pack_int(row_id)}

BplusTree_get_one(tree, key) ==
    IF \E e \in tree : e[1] = pack_int(key)
    THEN Some(unpack_row((CHOOSE e \in tree : e[1] = pack_int(key))[2]))
    ELSE None

\* lmdb put with overwrite: a unique tree replaces the entry of the key, a
\* dupsort tree adds the pair unless it is there already
BplusTree_put(tree, unique, key, row) ==
    IF unique
    THEN {e \in tree : e[1] # pack_int(key)} \cup {<<pack_int(key), pack_row(row)>>}
    ELSE tree \cup {<<pack_int(key), pack_row(row)>>}

\* delete(key, row): row is None or Some(row)
BplusTree_delete(tree, unique, key, row) ==
    IF unique
    THEN {e \in tree : ~(e[1] = pack_int(key) /\ (row = None \/ row[1] = unpack_row(e[2])))}
    ELSE IF row = None
    THEN {e \in tree : e[1] # pack_int(key)}
    ELSE tree \ {<<pack_int(key), pack_row(row[1])>>}

StoredColumnNames == <<"a", "b", "c">>

\* The metadata of the table: column indices count from 0 as in the code
StoredMetas ==
    {[column_names |-> StoredColumnNames, primary_key_column_index |-> pk, secondary_column_indices |-> sec] :
        pk \in {None, Some(0), Some(1)},
        sec \in {<<1>>, <<2>>, <<1, 2>>, <<2, 1>>, <<0, 2>>, <<2, 0>>}}

WithoutColumn(row, i) == SubSeq(row, 1, i) \o SubSeq(row, i + 2, Len(row))

\* rest_of_row = tuple(v for i, v in enumerate(row) if i != primary_key_column_index)
rest_of_row(row, pk) == WithoutColumn(row, pk)

RECURSIVE InsertPop_execute_with_indices(_, _)
InsertPop_execute_with_indices(s, rows) ==
    IF rows = << >> THEN [stg |-> s, raised |-> NoError]
    ELSE LET row == Head(rows)
             sec == s.metadata.secondary_column_indices
         IN IF s.metadata.primary_key_column_index = None
            THEN LET p == HeapFile_put(s.table, row)
                 IN InsertPop_execute_with_indices(
                            [s EXCEPT !.table = p.file,
                                      !.indices = [k \in DOMAIN sec |->
                                          BplusTree_put(s.indices[k], FALSE, row[sec[k] + 1], <<p.row_id>>)]],
                            Tail(rows))
            ELSE LET pk == s.metadata.primary_key_column_index[1]
                     key == row[pk + 1]
                 IN IF BplusTree_get_one(s.table, key) # None
                    THEN [stg |-> s, raised |-> "primary key constraint violation"]
                    ELSE InsertPop_execute_with_indices(
                            [s EXCEPT !.table = BplusTree_put(s.table, TRUE, key, rest_of_row(row, pk)),
                                      !.indices = [k \in DOMAIN sec |->
                                          BplusTree_put(s.indices[k], FALSE, row[sec[k] + 1], <<key>>)]],
                            Tail(rows))

\* The value of the first secondary key, whichever the index
delete_key_first(row, i) == row[2]

\* key = row[i+1]: the value of the i-th secondary key in a row of the key query
delete_key(row, i) == row[i + 2]

RECURSIVE DeletePop_execute(_, _)
DeletePop_execute(s, key_rows) ==
    IF key_rows = << >> THEN s
    ELSE LET row == Head(key_rows)
         IN DeletePop_execute(
                [s EXCEPT !.table = IF s.metadata.primary_key_column_index = None
                                    THEN HeapFile_delete(s.table, row[1])
                                    ELSE BplusTree_delete(s.table, TRUE, row[1], None),
                          !.indices = [k \in DOMAIN s.indices |->
                              BplusTree_delete(s.indices[k], FALSE, delete_key(row, k - 1), Some(<<row[1]>>))]],
                Tail(key_rows))

\* TableScanPop with return_row_id: the row id, or the primary key, comes first
StoredScanNames(metadata) ==
    IF metadata.primary_key_column_index = None
    THEN <<"row_id">> \o metadata.column_names
    ELSE <<metadata.column_names[metadata.primary_key_column_index[1] + 1]>>
            \o WithoutColumn(metadata.column_names, metadata.primary_key_column_index[1])

StoredScan(s) ==
    LET entries == InKeyOrder(s.table)
    IN [n \in DOMAIN entries |-> <<unpack_int(entries[n][1])>> \o unpack_row(entries[n][2])]

PositionOf(names, name) == CHOOSE i \in DOMAIN names : names[i] = name

\* The key query of a DELETE: id, sk_0, sk_1, ... of the rows the WHERE keeps
key_query(s, where) ==
    LET names == StoredScanNames(s.metadata)
        sec == s.metadata.secondary_column_indices
        project(row) == <<row[1]>> \o [k \in DOMAIN sec |-> row[PositionOf(names, s.metadata.column_names[sec[k] + 1])]]
        kept == SelectSeq(StoredScan(s), LAMBDA row : row[1] \in where)
    IN [n \in DOMAIN kept |-> project(kept[n])]

\* The ids of the rows of the table
StoredIds(s) == {unpack_int(e[1]) : e \in s.table}

\* The rows of the table in the column order of its metadata, with their ids
BaseRows(s) ==
    {[id |-> unpack_int(e[1]),
      row |-> IF s.metadata.primary_key_column_index = None
              THEN unpack_row(e[2])
              ELSE LET pk == s.metadata.primary_key_column_index[1]
                   IN SubSeq(unpack_row(e[2]), 1, pk) \o <<unpack_int(e[1])>>
                        \o SubSeq(unpack_row(e[2]), pk + 1, Len(unpack_row(e[2])))] : e \in s.table}

\* The rows of the VALUES of an INSERT
InsertedRows == {<<a, b, c>> : a \in 1..2, b \in {-1, 1, 2}, c \in {-2, 1}}

notStore == <<tmp, esb, hj, mj, ag, pl, mat, sg, tm, sess, gens, bw, ncols>>

InitStore ==
    /\ tmp = NoFiles
    /\ esb = Idle
    /\ hj = Idle
    /\ mj = Idle
    /\ ag = Idle
    /\ pl = Idle
    /\ mat = Idle
    /\ sg = Idle
    /\ tm = Idle
    /\ sess = Idle
    /\ gens = Idle
    /\ bw = Idle
    /\ ncols = 3
    /\ \E metadata \in StoredMetas :
          /\ Range(metadata.primary_key_column_index) \cap Range(metadata.secondary_column_indices) = {}
          /\ stg = [metadata |-> metadata, table |-> {},
                    indices |-> [k \in DOMAIN metadata.secondary_column_indices |-> {}]]
    /\ obs = [last |-> "CREATE INDEX", raised |-> NoError, count |-> 0]

\* INSERT INTO t VALUES ...: the statement's transaction is aborted when execute() raises
StoreInsert ==
    /\ \E rows \in {<<r>> : r \in InsertedRows} \cup {<<r1, r2>> : r1 \in InsertedRows, r2 \in InsertedRows} :
          \E r \in {InsertPop_execute_with_indices(stg, rows)} :
             IF r.raised = NoError
             THEN /\ Cardinality(r.stg.table) <= MaxStoredRows
                  /\ \A id \in StoredIds(r.stg) : id <= MaxRowId
                  /\ stg' = r.stg
                  /\ obs' = [last |-> "INSERT", raised |-> NoError, count |-> Len(rows)]
             ELSE /\ stg' = stg
                  /\ obs' = [last |-> "INSERT", raised |-> r.raised, count |-> 0]
    /\ UNCHANGED notStore

\* DELETE FROM t WHERE ...: the WHERE keeps any of the rows
StoreDelete ==
    /\ \E where \in SUBSET StoredIds(stg) :
          \E key_rows \in {key_query(stg, where)} :
             /\ stg' = DeletePop_execute(stg, key_rows)
             /\ obs' = [last |-> "DELETE", raised |-> NoError, count |-> Len(key_rows)]
    /\ UNCHANGED notStore

NextStore == StoreInsert \/ StoreDelete

SpecStore == InitStore /\ [][NextStore]_vars

\* The entries an index on a column has to hold for the rows of the table
EntriesFor(s, column) == {<<pack_int(r.row[column + 1]), pack_row(<<r.id>>)>> : r \in BaseRows(s)}

\* C24: after any sequence of successful INSERT and DELETE statements on a
\* table, every secondary index of the table holds exactly one (key, row id)
\* entry for each base row, with the row's current value of the indexed column.
C24_IndicesFollowBaseRows ==
    \A k \in DOMAIN stg.indices :
        /\ stg.indices[k] = EntriesFor(stg, stg.metadata.secondary_column_indices[k])
        /\ Cardinality(stg.indices[k]) = Cardinality(stg.table)

\* Rows went in, one of two rows with the same value in an indexed column was
\* deleted, and the table has two indices
C24_Witness ==
    /\ obs.last = "DELETE"
    /\ obs.count = 1
    /\ Len(stg.metadata.secondary_column_indices) = 2
    /\ Cardinality(stg.table) = 1
    /\ \E r \in BaseRows(stg) : r.id > 0 /\ r.row[stg.metadata.secondary_column_indices[1] + 1]
                                            # r.row[stg.metadata.secondary_column_indices[2] + 1]

----------------------------------------------------------------------------
(* The access or join method the planner picks for each table of the FROM  *)
(* list (planner/baseline.py).  Plans are kept down to their scan and join *)
(* operators: the sorts below a merge join and the filters of residual     *)
(* conditions are not represented.                                         *)

\* Conjunctive parts of a WHERE condition at most
MaxWhereParts == 2

\* A physical operator over its inputs
Pop(op, inputs, on) == [op |-> op, inputs |-> inputs, on |-> on]

\* No plan yet: left is None
NoPlan == Pop("None", << >>, "")

\* A column reference and a literal
NamedColumnRef(alias, column) == [ref |-> TRUE, alias |-> alias, column |-> column]
Literal == [ref |-> FALSE, alias |-> "", column |-> ""]

\* valexpr.in_scope for a leaf: a literal has no column reference
in_scope(e, table_aliases) == e.ref => e.alias \in Range(table_aliases)

\* in_scope for a comparison: all of its children
part_in_scope(part, table_aliases) ==
    in_scope(part.left, table_aliases) /\ in_scope(part.right, table_aliases)

\* valexpr.push_down_conds on the list of conjunctive parts
push_down_conds(cond, table_aliases) ==
    LET pushed(part) == part_in_scope(part, table_aliases)
        remaining(part) == ~part_in_scope(part, table_aliases)
    IN [local |-> SelectSeq(cond, pushed), cond |-> SelectSeq(cond, remaining)]

\* The indexed columns of a table whose column k has the given kind of index
method_indexed_column_names(index_kind) == IF index_kind = "none" THEN {} ELSE {"k"}

\* sarg_cond returns a triple: some part is a candidate for an indexed column
sarg_applies(outer_table_aliases, inner_table_alias, index_kind, cond) ==
    \E n \in DOMAIN cond :
        /\ cond[n].op # "NE"
        /\ in_scope(cond[n].left, outer_table_aliases) \/ in_scope(cond[n].right, outer_table_aliases)
        /\ \E c \in {cond[n].left, cond[n].right} :
              /\ c.ref
              /\ c.alias = inner_table_alias
              /\ c.column \in method_indexed_column_names(index_kind)

\* make_eqj_cond returns a triple: some part equates the two sides
eqj_applies(left_aliases, right_aliases, cond) ==
    \E n \in DOMAIN cond :
        /\ cond[n].op = "EQ"
        /\ \/ in_scope(cond[n].left, left_aliases) /\ in_scope(cond[n].right, right_aliases)
           \/ in_scope(cond[n].left, right_aliases) /\ in_scope(cond[n].right, left_aliases)

\* retrieve_base_by_key
retrieve_base_by_key(pop, alias) ==
    Pop("IndexNLJoinPop", <<pop, Pop("IndexScanPop", << >>, alias)>>, alias)

make_independent_index_scan_plan(alias, index_kind) ==
    IF index_kind = "secondary"
    THEN retrieve_base_by_key(Pop("IndexScanPop", << >>, alias), alias)
    ELSE Pop("IndexScanPop", << >>, alias)

make_indexnljoin_with_table(left, alias, index_kind) ==
    IF index_kind = "secondary"
    THEN retrieve_base_by_key(Pop("IndexNLJoinPop", <<left, Pop("IndexScanPop", << >>, alias)>>, alias), alias)
    ELSE Pop("IndexNLJoinPop", <<left, Pop("IndexScanPop", << >>, alias)>>, alias)

\* optimize_one_more_table with every option and every kind of condition
optimize_one_more_table_with(left, left_aliases, alias, index_kind, cond, options) ==
    IF cond # << >> /\ sarg_applies(left_aliases, alias, index_kind, cond) /\ left = NoPlan
    THEN make_independent_index_scan_plan(alias, index_kind)
    ELSE IF cond # << >> /\ sarg_applies(left_aliases, alias, index_kind, cond) /\ options.index_join
    THEN make_indexnljoin_with_table(left, alias, index_kind)
    ELSE IF options.sort_merge_join /\ cond # << >> /\ left # NoPlan
            /\ eqj_applies(left_aliases, <<alias>>, cond)
    THEN Pop("MergeEqJoinPop", <<left, Pop("TableScanPop", << >>, alias)>>, alias)
    ELSE IF options.hash_join /\ cond # << >> /\ left # NoPlan
            /\ eqj_applies(left_aliases, <<alias>>, cond)
    THEN Pop("HashEqJoinPop", <<left, Pop("TableScanPop", << >>, alias)>>, alias)
    ELSE IF left = NoPlan
    THEN Pop("TableScanPop", << >>, alias)
    ELSE Pop("BNLJoinPop", <<left, Pop("TableScanPop", << >>, alias)>>, alias)

\* The classes of the operators of a plan
RECURSIVE Operators(_)
Operators(pop) ==
    IF pop = NoPlan THEN {}
    ELSE {pop.op} \cup UNION {Operators(pop.inputs[n]) : n \in DOMAIN pop.inputs}

\* SELECT ... FROM t1, t2 WHERE part AND part: each table has a column k that
\* may be indexed and t2 a column v that is not
MethodAliases == <<"t1", "t2">>
MethodExprs == {NamedColumnRef("t1", "k"), NamedColumnRef("t2", "k"), NamedColumnRef("t2", "v"), Literal}
MethodParts == [op : {"EQ", "NE", "LT"}, left : MethodExprs, right : MethodExprs]
IndexKinds == {"none", "primary", "secondary"}

notMethod == <<tmp, esb, hj, mj, ag, mat, sg, tm, sess, gens, bw, stg, ncols>>

InitMethod ==
    /\ tmp = NoFiles
    /\ esb = Idle
    /\ hj = Idle
    /\ mj = Idle
    /\ ag = Idle
    /\ mat = Idle
    /\ sg = Idle
    /\ tm = Idle
    /\ sess = Idle
    /\ gens = Idle
    /\ bw = Idle
    /\ stg = Idle
    /\ ncols = 2
    /\ \E where \in UNION {[1..n -> MethodParts] : n \in 0..MaxWhereParts},
          kinds \in [1..Len(MethodAliases) -> IndexKinds],
          options \in [index_join : BOOLEAN, sort_merge_join : BOOLEAN, hash_join : BOOLEAN] :
          pl = [pc |-> "block", options |-> options, index_kinds |-> kinds, cond |-> where,
                outer_table_aliases |-> << >>, plan |-> NoPlan]
    /\ obs = [left |-> NoPlan, local_cond |-> << >>, index_kind |-> "none", added |-> NoPlan]

\* optimize_block: one pass of the loop over the FROM list
MethodAddTable ==
    /\ pl.pc = "block"
    /\ Len(pl.outer_table_aliases) < Len(MethodAliases)
    /\ LET input_alias == MethodAliases[Len(pl.outer_table_aliases) + 1]
           index_kind == pl.index_kinds[Len(pl.outer_table_aliases) + 1]
       IN \E p \in {push_down_conds(pl.cond, Append(pl.outer_table_aliases, input_alias))} :
          \E plan \in {optimize_one_more_table_with(pl.plan, pl.outer_table_aliases, input_alias,
                                                    index_kind, p.local, pl.options)} :
             /\ pl' = [pl EXCEPT !.plan = plan, !.cond = p.cond,
                                 !.outer_table_aliases = Append(@, input_alias)]
             /\ obs' = [left |-> pl.plan, local_cond |-> p.local, index_kind |-> index_kind,
                        added |-> plan]
    /\ UNCHANGED notMethod

\* optimize_block after the loop
MethodBlockEnd ==
    /\ pl.pc = "block"
    /\ Len(pl.outer_table_aliases) = Len(MethodAliases)
    /\ pl' = [pl EXCEPT !.pc = "planned"]
    /\ UNCHANGED <<obs, notMethod>>

NextMethod == MethodAddTable \/ MethodBlockEnd

SpecMethod == InitMethod /\ [][NextMethod]_vars

\* The table last added, the aliases before it, and what holds of its condition
AddedAlias == MethodAliases[Len(pl.outer_table_aliases)]
AliasesBefore == SubSeq(pl.outer_table_aliases, 1, Len(pl.outer_table_aliases) - 1)
SargApplies == sarg_applies(AliasesBefore, AddedAlias, obs.index_kind, obs.local_cond)
EquiPredicates == eqj_applies(AliasesBefore, <<AddedAlias>>, obs.local_cond)

\* The method of the table last added, in the order of the four cases; a first
\* table has nothing to be joined with and is scanned in the last case
MethodInOrder ==
    IF SargApplies /\ pl.options.index_join
    THEN obs.added.op \in {"IndexScanPop", "IndexNLJoinPop"}
    ELSE IF obs.left # NoPlan /\ EquiPredicates /\ pl.options.sort_merge_join
    THEN obs.added.op = "MergeEqJoinPop"
    ELSE IF obs.left # NoPlan /\ EquiPredicates /\ pl.options.hash_join
    THEN obs.added.op = "HashEqJoinPop"
    ELSE obs.added.op = IF obs.left = NoPlan THEN "TableScanPop" ELSE "BNLJoinPop"

\* No operator of a method whose option is off
NoDisabledMethod ==
    /\ ~pl.options.index_join => Operators(pl.plan) \cap {"IndexScanPop", "IndexNLJoinPop"} = {}
    /\ ~pl.options.sort_merge_join => "MergeEqJoinPop" \notin Operators(pl.plan)
    /\ ~pl.options.hash_join => "HashEqJoinPop" \notin Operators(pl.plan)

\* C25: for each table added to a plan the planner uses the first applicable
\* method in a fixed order: index scan or index nested-loop join only if a Sarg
\* applies and index_join is on, else sort-merge join if equi-predicates exist
\* and sort_merge_join is on, else hash join if equi-predicates exist and
\* hash_join is on, else block nested-loop join; and a method whose option is
\* off never appears in the plan.
C25_MethodOrderAndOptions ==
    pl.outer_table_aliases # << >> => MethodInOrder /\ NoDisabledMethod

\* What holds: the order is followed with "a Sarg applies and (the table is the
\* first of the plan or index_join is on)" as its first case, where equi-predicates
\* need a plan to join with; a table joined to a plan uses no method whose option
\* is off, the index scans being those of the first table
JoinedTableMethodInOrder ==
    pl.outer_table_aliases # << >> =>
        /\ IF SargApplies /\ (obs.left = NoPlan \/ pl.options.index_join)
           THEN obs.added.op \in {"IndexScanPop", "IndexNLJoinPop"}
           ELSE IF obs.left # NoPlan /\ EquiPredicates /\ pl.options.sort_merge_join
           THEN obs.added.op = "MergeEqJoinPop"
           ELSE IF obs.left # NoPlan /\ EquiPredicates /\ pl.options.hash_join
           THEN obs.added.op = "HashEqJoinPop"
           ELSE obs.added.op = IF obs.left = NoPlan THEN "TableScanPop" ELSE "BNLJoinPop"
        /\ ~pl.options.sort_merge_join => "MergeEqJoinPop" \notin Operators(pl.plan)
        /\ ~pl.options.hash_join => "HashEqJoinPop" \notin Operators(pl.plan)
        /\ (~pl.options.index_join /\ obs.left # NoPlan) => obs.added.op # "IndexNLJoinPop"

----------------------------------------------------------------------------
(* What the aggregation holds and when it emits (executor/aggr.py), over   *)
(* the steps of SpecAggr.                                                  *)

\* The input rows the aggregation has pulled: both loops over the input run
\* to its end before anything else is done
AggrConsumed == IF ag.pc = "start" THEN << >> ELSE ag.input

\* The groups of the consumed rows that are complete once a row beyond the
\* first row of the next group has been consumed
AggrGroupsDue ==
    LET runs == RunsOf(AggrConsumed, << >>)
    IN IF runs = << >> THEN 0
       ELSE IF Len(runs[Len(runs)]) >= 2 THEN Len(runs) - 1
       ELSE Max(Len(runs) - 2, 0)

\* C26: the aggregation holds accumulator state for the current group only; at a
\* group boundary it finalizes, emits the group's row and resets the
\* accumulators, so each group's row is emitted before any input row beyond the
\* first row of the next group is consumed.
C26_GroupEmittedAtBoundary ==
    /\ Len(ag.finalNeeded) <= 1
    /\ Len(obs.out) >= AggrGroupsDue

\* What the operator does: it keeps one entry of states per distinct key of a group
\* until the input is exhausted, and emits nothing before that
AggrEmitsAfterWholeInput ==
    /\ ag.pc = "aggregated" =>
          /\ obs.out = << >>
          /\ Len(ag.finalNeeded) = Cardinality({grp_key(grp_of(ag.input[n])) : n \in DOMAIN ag.input})
    /\ obs.out # << >> => ag.pc \in {"done", "ended"} /\ Len(obs.out) = Len(ag.finalNeeded)

----------------------------------------------------------------------------
(* A session over its whole life (session.py): requests that set any       *)
(* option, requests whose transactions cannot be begun, and __exit__.  The *)
(* database is the set of the primary keys of one table.                   *)

\* Requests of one session
MaxOptionRequests == 3

\* The fields of Session.Options and of Planner.Options with the strings each takes
SessionOptionValues ==
    [autocommit |-> {"on", "off"}, read_only |-> {"read only", "read write"},
     debug |-> {"on", "off"}, planner |-> {"baseline", "naive", "smart"}]
PlannerOptionValues ==
    [index_join |-> {"on", "off"}, sort_merge_join |-> {"on", "off"}, hash_join |-> {"on", "off"}]

\* The requests of the model: an INSERT of key 1, a SELECT, a SELECT that divides
\* by zero, COMMIT, ROLLBACK, and SET of an option to a value
OptionStatements ==
    [kind : {"insert", "select", "select bad", "commit", "rollback"}, option : {""}, value : {""}]
    \cup {[kind |-> "set", option |-> o[1], value |-> o[2]] :
            o \in {<<"autocommit", "on">>, <<"autocommit", "off">>,
                   <<"read_only", "read only">>, <<"read_only", "read write">>,
                   <<"transaction", "read write">>, <<"debug", "on">>, <<"debug", "verbose">>,
                   <<"hash_join", "off">>, <<"planner", "naive">>}}

\* A set_option that never asks for the parent transaction to be committed
set_option_no_signal(s, option, value) ==
    [autocommit |-> IF option = "autocommit" /\ value \in {"on", "off"} THEN value = "on" ELSE s.autocommit,
     read_only |-> IF option = "read_only" THEN value = "read only" ELSE s.read_only,
     signal_parent_commit |-> FALSE, raised |-> NoError]

\* Session.set_option: the options after it, whether to commit the parent, and what it raises
set_option(s, option, value) ==
    LET same == [autocommit |-> s.autocommit, read_only |-> s.read_only,
                 signal_parent_commit |-> FALSE, raised |-> NoError]
    IN  IF option \in DOMAIN SessionOptionValues
        THEN IF option = "autocommit" /\ ~s.autocommit /\ value = "on"
                /\ s.parent_has_done_work /\ s.parent_tx # NoTx
             THEN [same EXCEPT !.raised = "commit or abort ongoing transaction"]
             ELSE IF value \notin SessionOptionValues[option]
             THEN [same EXCEPT !.raised = "ValueError"]
             ELSE [same EXCEPT
                     !.autocommit = IF option = "autocommit" THEN value = "on" ELSE @,
                     !.read_only = IF option = "read_only" THEN value = "read only" ELSE @,
                     !.signal_parent_commit = option = "autocommit" /\ ~s.autocommit /\ value = "on"]
        ELSE IF option \in DOMAIN PlannerOptionValues
        THEN IF value \notin PlannerOptionValues[option]
             THEN [same EXCEPT !.raised = "ValueError"]
             ELSE same
        ELSE [same EXCEPT !.raised = "SET option unknown"]

\* The try block of request() up to the commits, in a transaction that sees data
try_statement(s, stmt, data, read_only) ==
    LET quiet == [data |-> data, parent_to_do |-> 0, autocommit |-> s.autocommit,
                  read_only |-> s.read_only, raised |-> NoError]
    IN  IF stmt.kind = "set"
        THEN LET o == set_option(s, stmt.option, stmt.value)
             IN [quiet EXCEPT !.autocommit = o.autocommit, !.read_only = o.read_only,
                              !.parent_to_do = IF o.signal_parent_commit THEN 1 ELSE 0,
                              !.raised = o.raised]
        ELSE IF stmt.kind = "commit"
        THEN IF s.parent_tx = NoTx THEN [quiet EXCEPT !.raised = "no transaction to COMMIT"]
             ELSE [quiet EXCEPT !.parent_to_do = 1]
        ELSE IF stmt.kind = "rollback"
        THEN IF s.parent_tx = NoTx THEN [quiet EXCEPT !.raised = "no transaction to ROLLBACK"]
             ELSE [quiet EXCEPT !.parent_to_do = -1]
        ELSE IF stmt.kind = "insert"
        THEN IF read_only THEN [quiet EXCEPT !.raised = "lmdb.ReadonlyError"]
             ELSE LET r == InsertPop_execute(data, <<1>>)
                  IN  [quiet EXCEPT !.data = r.data, !.raised = r.raised]
        ELSE IF stmt.kind = "select bad"
        THEN [quiet EXCEPT !.raised = "division by zero"]
        ELSE quiet

\* Transaction.__exit__: a transaction that is still ACTIVE is aborted
Transaction_exit(t, tx) == IF t.txs[tx].status = "ACTIVE" THEN abort(t, tx).tm ELSE t

\* The try block and its except block, then the end of the with statement
request_with(t, s, stmt, tx, tmp_tx) ==
    LET r == try_statement(s, stmt, t.txs[tx].data, t.txs[tx].read_only)
        t1 == [t EXCEPT !.txs[tx].data = r.data]
        t2 == IF r.raised # NoError THEN end_statement_failed(t1, tx, tmp_tx)
              ELSE end_statement(t1, tx, tmp_tx)
    IN  [tm |-> Transaction_exit(Transaction_exit(t2, tmp_tx), tx), r |-> r]

\* Does a begin_transaction of request() wait for another writer
request_waits(t, s) ==
    LET need == ~s.autocommit /\ s.parent_tx = NoTx
    IN  \/ need /\ lmdb_begin_waits(t, NoTx, ~s.read_only, FALSE)
        \/ need /\ lmdb_begin_waits(t, NoTx, TRUE, TRUE)
        \/ s.autocommit /\ s.parent_tx = NoTx /\ lmdb_begin_waits(t, NoTx, ~s.read_only, FALSE)
        \/ s.autocommit /\ s.parent_tmp_tx = NoTx /\ lmdb_begin_waits(t, NoTx, TRUE, TRUE)

\* Session.request: the transaction manager and the session after it, whether it
\* returned a Response (or an exception left it), the error of the Response, and
\* the inner transactions it began
Session_request(t, s, stmt) ==
    LET need == ~s.autocommit /\ s.parent_tx = NoTx
        b1 == IF need THEN begin_transaction(t, NoTx, s.read_only, FALSE)
              ELSE [tm |-> t, tx |-> s.parent_tx, raised |-> NoError]
        b2 == IF need THEN begin_transaction(b1.tm, NoTx, FALSE, TRUE)
              ELSE [tm |-> t, tx |-> s.parent_tmp_tx, raised |-> NoError]
        s1 == [s EXCEPT !.parent_tx = b1.tx, !.parent_tmp_tx = b2.tx,
                        !.parent_has_done_work = IF need THEN FALSE ELSE @]
        b3 == begin_transaction(b2.tm, b1.tx, s.read_only, FALSE)
        escaped(tm1, raised) ==
            [tm |-> tm1, sess |-> s1, returned |-> FALSE, error |-> FALSE, raised |-> raised,
             tx |-> NoTx, tmp_tx |-> NoTx]
    IN  IF b3.raised # NoError THEN escaped(b2.tm, b3.raised)
        ELSE LET b4 == begin_transaction(b3.tm, b2.tx, FALSE, TRUE)
             IN IF b4.raised # NoError
                THEN escaped(Transaction_exit(b3.tm, b3.tx), b4.raised)
                ELSE LET w == request_with(b4.tm, s1, stmt, b3.tx, b4.tx)
                         failed == w.r.raised # NoError
                         s2 == [s1 EXCEPT
                                  !.autocommit = w.r.autocommit,
                                  !.read_only = w.r.read_only,
                                  !.parent_has_done_work =
                                      IF ~failed /\ s1.parent_tx # NoTx THEN TRUE ELSE @]
                     IN IF w.r.parent_to_do # 0 /\ (s2.parent_tx = NoTx \/ s2.parent_tmp_tx = NoTx)
                        THEN [tm |-> w.tm, sess |-> s2, returned |-> FALSE, error |-> failed,
                              raised |-> "unexpected error", tx |-> b3.tx, tmp_tx |-> b4.tx]
                        ELSE [tm |-> end_parent(w.tm, s2, w.r.parent_to_do),
                              sess |-> IF w.r.parent_to_do # 0
                                       THEN [s2 EXCEPT !.parent_tx = NoTx, !.parent_tmp_tx = NoTx,
                                                       !.parent_has_done_work = FALSE]
                                       ELSE s2,
                              returned |-> TRUE, error |-> failed, raised |-> w.r.raised,
                              tx |-> b3.tx, tmp_tx |-> b4.tx]

\* Session.__exit__
Session_exit(t, s) ==
    LET t1 == IF s.parent_tmp_tx # NoTx THEN abort(t, s.parent_tmp_tx).tm ELSE t
        ends == s.parent_tx # NoTx /\ s.parent_has_done_work
    IN  [tm |-> IF ends THEN abort(t1, s.parent_tx).tm ELSE t1,
         sess |-> [s EXCEPT !.parent_tmp_tx = NoTx,
                            !.parent_tx = IF ends THEN NoTx ELSE @,
                            !.parent_has_done_work = IF ends THEN FALSE ELSE @]]

notOptions == <<tmp, esb, hj, mj, ag, pl, mat, sg, gens, bw, stg, ncols>>

InitOptions ==
    /\ tmp = NoFiles
    /\ esb = Idle
    /\ hj = Idle
    /\ mj = Idle
    /\ ag = Idle
    /\ pl = Idle
    /\ mat = Idle
    /\ sg = Idle
    /\ gens = Idle
    /\ bw = Idle
    /\ stg = Idle
    /\ ncols = NumColumns
    /\ \E table \in SUBSET {1} : tm = [txs |-> << >>, env |-> table, tmp_env |-> {}]
    /\ sess = [autocommit |-> TRUE, read_only |-> FALSE, parent_tx |-> NoTx,
               parent_tmp_tx |-> NoTx, parent_has_done_work |-> FALSE]
    /\ obs = [requests |-> 0, stmt |-> [kind |-> "none", option |-> "", value |-> ""],
              returned |-> TRUE, error |-> FALSE, raised |-> NoError,
              tx_status |-> "none", tmp_tx_status |-> "none", autocommit_before |-> TRUE,
              closed |-> FALSE]

\* session.request(parse_tree).  Once no transaction is ACTIVE the finished
\* ones, which nothing refers to any more, are dropped.
OptionsRequest ==
    /\ ~obs.closed
    /\ obs.requests < MaxOptionRequests
    /\ ~request_waits(tm, sess)
    /\ \E stmt \in OptionStatements :
          \E q \in {Session_request(tm, sess, stmt)} :
             /\ tm' = IF \A c \in 1..Len(q.tm.txs) : q.tm.txs[c].status # "ACTIVE"
                      THEN [q.tm EXCEPT !.txs = << >>] ELSE q.tm
             /\ sess' = q.sess
             /\ obs' = [requests |-> obs.requests + 1, stmt |-> stmt,
                        returned |-> q.returned, error |-> q.error, raised |-> q.raised,
                        tx_status |-> IF q.tx = NoTx THEN "none" ELSE q.tm.txs[q.tx].status,
                        tmp_tx_status |-> IF q.tmp_tx = NoTx THEN "none" ELSE q.tm.txs[q.tmp_tx].status,
                        autocommit_before |-> sess.autocommit,
                        closed |-> FALSE]
    /\ UNCHANGED notOptions

\* The session is left: session.__exit__(...)
OptionsExit ==
    /\ ~obs.closed
    /\ \E q \in {Session_exit(tm, sess)} :
          /\ tm' = q.tm
          /\ sess' = q.sess
    /\ obs' = [obs EXCEPT !.closed = TRUE]
    /\ UNCHANGED notOptions

NextOptions == OptionsRequest \/ OptionsExit

SpecOptions == InitOptions /\ [][NextOptions]_vars

\* No begin_transaction of a request has to wait for another writer
OptionsRequestNeverWaits == ~obs.closed => ~request_waits(tm, sess)

\* A COMMIT or a ROLLBACK request made now returns and ends the outer transaction
OuterCanBeEnded ==
    \A kind \in {"commit", "rollback"} :
        LET q == Session_request(tm, sess, [kind |-> kind, option |-> "", value |-> ""])
        IN  q.returned /\ ~q.error /\ q.sess.parent_tx = NoTx

\* C27: for any sequence of requests (statements, SET of any session option,
\* COMMIT, ROLLBACK) request() returns a Response and lets no exception escape,
\* and the session never reaches a state in which every later request fails:
\* whenever an outer transaction is open, a later COMMIT or ROLLBACK request
\* can end it.
C27_RequestReturnsAndOuterCanEnd ==
    ~obs.closed =>
        /\ obs.returned
        /\ sess.parent_tx # NoTx => OuterCanBeEnded

\* What holds: a request fails to return only when the read_only option is on and
\* the inner transaction is to be nested in an outer transaction; from then on, as
\* long as the session is open, no request returns
RequestEscapesUnderReadOnlyOuter ==
    ~obs.closed =>
        /\ ~obs.returned => (obs.raised = "lmdb.Error" /\ sess.read_only /\ sess.parent_tx # NoTx)
        /\ (sess.read_only /\ sess.parent_tx # NoTx) =>
              \A stmt \in OptionStatements : ~Session_request(tm, sess, stmt).returned
        /\ (~sess.read_only /\ sess.parent_tx # NoTx) => OuterCanBeEnded

\* C28: whenever request() returns, the inner transaction and the inner tmp
\* transaction of the statement are both finished and agree: both COMMITTED if
\* the response carries no error, both ABORTED if it carries one.
C28_InnerTransactionsAgree ==
    (obs.requests > 0 /\ obs.returned) =>
        /\ obs.error => (obs.tx_status = "ABORTED" /\ obs.tmp_tx_status = "ABORTED")
        /\ ~obs.error => (obs.tx_status = "COMMITTED" /\ obs.tmp_tx_status = "COMMITTED")

\* An INSERT of a key that is already there failed in its inner transaction,
\* within an outer transaction in which an earlier statement succeeded
C28_Witness ==
    /\ obs.returned /\ obs.error /\ obs.raised = "primary key constraint violation"
    /\ obs.requests = MaxOptionRequests
    /\ sess.parent_tx # NoTx /\ sess.parent_has_done_work

\* The outer transactions of the session between requests
OuterTransactionsPaired ==
    /\ sess.parent_tx = NoTx <=> sess.parent_tmp_tx = NoTx
    /\ sess.parent_tx # NoTx =>
          /\ tm.txs[sess.parent_tx].status = "ACTIVE"
          /\ tm.txs[sess.parent_tmp_tx].status = "ACTIVE"
    /\ sess.autocommit => sess.parent_tx = NoTx

\* C29: between requests the outer transaction and the outer tmp transaction of
\* the session are both absent or both present and ACTIVE, and while autocommit
\* is on no outer transaction is open, whatever the requests were.
C29_OuterTransactionsPaired == ~obs.closed => OuterTransactionsPaired

\* SET AUTOCOMMIT ON has ended an outer transaction that had done no work, after
\* a statement failed in it
C29_Witness ==
    /\ obs.stmt = [kind |-> "set", option |-> "autocommit", value |-> "on"]
    /\ obs.returned /\ ~obs.error /\ ~obs.autocommit_before
    /\ obs.requests = MaxOptionRequests
    /\ sess.autocommit /\ ~obs.closed

\* C30: after Session.__exit__ no transaction begun by the session is still
\* ACTIVE, whatever requests were made before and whether or not the open outer
\* transaction had completed a statement.
C30_NothingActiveAfterExit ==
    obs.closed => \A c \in 1..Len(tm.txs) : tm.txs[c].status # "ACTIVE"

\* What __exit__ does: the outer tmp transaction is always aborted; the outer
\* transaction is aborted when a statement has succeeded in it and is otherwise
\* left ACTIVE, still referred to by the session
ExitAbortsOuterThatDidWork ==
    obs.closed =>
        /\ sess.parent_tmp_tx = NoTx
        /\ \A c \in 1..Len(tm.txs) :
              tm.txs[c].status = "ACTIVE" =>
                 (c = sess.parent_tx /\ ~tm.txs[c].tmp /\ ~sess.parent_has_done_work)
        /\ sess.parent_has_done_work => sess.parent_tx # NoTx

====
